---- MODULE Spec2Model ----
(***************************************************************************)
(* KiForge: footprint engine (QFP / QFN / DFN), schematic symbol engine    *)
(* and the data-model validation they rest on.                             *)
(*                                                                         *)
(* Lengths are integers, in micrometres (0.001 mm); the input sets are     *)
(* chosen so that every halving and division of the code is exact, so the  *)
(* model computes the real-number value of each float expression.          *)
(* An Optional value is a sequence of length 0 (None) or 1.                *)
(***************************************************************************)
EXTENDS Integers, Sequences, FiniteSets, TLC

VARIABLES
    \* ---- footprint engine instance (FootprintGenerator) ----
    gen,        \* concrete class of the instance: "QFP" or "QFN"
    params,     \* self.params (FootprintParams)
    pads,       \* self.pads
    lines,      \* self.lines
    circles,    \* self.circles
    arcs,       \* self.arcs
    texts,      \* self.texts
    fpOut,      \* outcome of the last call on the instance
    fpLog,      \* the methods called on the instance so far, in order
    \* ---- environment ----
    today,      \* datetime.now() as a day number
    uuidCtr,    \* number of uuid4() values drawn so far
    \* ---- symbol engine instance (SymbolGenerator) ----
    component,  \* self.component (ComponentInfo)
    layouts,    \* self.layouts
    symOut,     \* outcome of the last call on the instance
    symLog,     \* the methods called on the instance so far, in order
    \* ---- ComponentInfo construction ----
    rawPins,    \* the pin list handed to ComponentInfo(...)
    compOut,    \* outcome of the construction
    \* ---- create_qfp_footprint / create_qfn_footprint ----
    createOut,  \* outcome of the last convenience call
    \* ---- several engine instances, one generate() call on each ----
    engines,    \* per instance: its inputs, its own lists, its position in generate()
    \* ---- SymbolGenerator._sort_with_diff_pairs called on a pin list ----
    sigPins,    \* the list handed to the method
    sigOut      \* whether it has returned, and the list it returned

fpVars   == <<gen, params, pads, lines, circles, arcs, texts, fpOut, fpLog>>
envVars  == <<today, uuidCtr>>
symVars  == <<component, layouts, symOut, symLog>>
compVars == <<rawPins, compOut>>
sigVars  == <<sigPins, sigOut>>
vars     == <<fpVars, envVars, symVars, compVars, createOut, engines, sigVars>>

None    == <<>>
Some(x) == <<x>>
IsNone(o) == o = <<>>
Val(o)  == o[1]

Min(a, b) == IF a <= b THEN a ELSE b
Max(a, b) == IF a >= b THEN a ELSE b

RECURSIVE Flatten(_)
Flatten(ss) == IF ss = <<>> THEN <<>> ELSE Head(ss) \o Flatten(Tail(ss))

Range(s) == {s[i] : i \in 1..Len(s)}

(***************************************************************************)
(* Bounds of the model.                                                    *)
(***************************************************************************)
MaxPinCount == 9    \* PackageInfo.pin_count ranges over 1..MaxPinCount
MaxVia      == 2    \* thermal via counts range over 0..MaxVia
MaxCalls    == 2    \* calls made on one engine instance
MaxDay      == 1    \* the date stamp takes the values 0..MaxDay

(***************************************************************************)
(* models/package.py                                                       *)
(***************************************************************************)
QuadTypes == {"QFP", "LQFP", "TQFP", "VQFP", "QFN", "VQFN", "WQFN"}
DualTypes == {"DFN", "SOIC", "SOP", "SSOP", "TSSOP", "MSOP", "DIP"}

has_thermal_pad(pkg) == ~IsNone(pkg.thermal_pad)

is_quad(pkg) == pkg.package_type \in QuadTypes

is_dual(pkg) == pkg.package_type \in DualTypes

effective_pins(pkg) ==
    IF has_thermal_pad(pkg) THEN pkg.pin_count - 1 ELSE pkg.pin_count

pins_per_side(pkg) ==
    IF ~is_quad(pkg) THEN None ELSE Some(effective_pins(pkg) \div 4)

pins_per_row(pkg) ==
    IF ~is_dual(pkg) THEN None ELSE Some(effective_pins(pkg) \div 2)

total_via_count(t) == t.via_count_x * t.via_count_y

(***************************************************************************)
(* models/footprint.py                                                     *)
(***************************************************************************)
params_has_thermal_pad(p) ==
    ~IsNone(p.thermal_pad_override) \/ has_thermal_pad(p.package)

\* A variant that prefers the package's thermal pad to the override.
thermal_pad_package_first(p) ==
    IF ~IsNone(p.package.thermal_pad) THEN p.package.thermal_pad
    ELSE p.thermal_pad_override

params_thermal_pad(p) ==
    IF ~IsNone(p.thermal_pad_override) THEN p.thermal_pad_override
    ELSE p.package.thermal_pad

(***************************************************************************)
(* footprint/generator.py: geometry records                                *)
(***************************************************************************)
SmdLayers == <<"F.Cu", "F.Paste", "F.Mask">>

Pad(number, pad_type, shape, x, y, width, height, ratio) ==
    [number |-> number, pad_type |-> pad_type, shape |-> shape,
     x |-> x, y |-> y, width |-> width, height |-> height, rotation |-> 0,
     layers |-> SmdLayers, roundrect_ratio |-> ratio, drill |-> None,
     property_heatsink |-> FALSE]

Line(x1, y1, x2, y2, layer, width) ==
    [x1 |-> x1, y1 |-> y1, x2 |-> x2, y2 |-> y2, layer |-> layer, width |-> width]

Circle(cx, cy, radius, layer, width, fill) ==
    [cx |-> cx, cy |-> cy, radius |-> radius, layer |-> layer, width |-> width,
     fill |-> fill]

Text(text_type, text, x, y, layer) ==
    [text_type |-> text_type, text |-> text, x |-> x, y |-> y, layer |-> layer,
     font_size |-> 1000, font_thickness |-> 150, hide |-> FALSE]

\* The five lists of an engine instance, as one value.
Geo(ps, ls, cs, as, ts) ==
    [pads |-> ps, lines |-> ls, circles |-> cs, arcs |-> as, texts |-> ts]

EmptyGeo == Geo(<<>>, <<>>, <<>>, <<>>, <<>>)

(***************************************************************************)
(* footprint/qfp.py, footprint/qfn.py: pad placement.  Each operator       *)
(* returns the pads the method appends to self.pads, in order.             *)
(***************************************************************************)
\* Left column: pins going downward from -span/2 (side 1 of both engines).
LeftSide(p, n, first) ==
    LET span == (n - 1) * p.package.pitch
    IN  [i \in 1..n |->
            Pad(ToString(first + i - 1), p.pad_type, p.pad_size.shape,
                -p.pad_center_x, -(span \div 2) + (i - 1) * p.package.pitch,
                p.pad_size.width, p.pad_size.height, p.pad_size.corner_ratio)]

\* A bottom row placed at -pad_center_y, where the top row belongs.
BottomSideAtTop(p, n, first) ==
    LET span == (n - 1) * p.package.pitch
    IN  [i \in 1..n |->
            Pad(ToString(first + i - 1), p.pad_type, p.pad_size.shape,
                -(span \div 2) + (i - 1) * p.package.pitch, -p.pad_center_y,
                p.pad_size.height, p.pad_size.width, p.pad_size.corner_ratio)]

\* Bottom row: pins going right from -span/2, width and height swapped.
BottomSide(p, n, first) ==
    LET span == (n - 1) * p.package.pitch
    IN  [i \in 1..n |->
            Pad(ToString(first + i - 1), p.pad_type, p.pad_size.shape,
                -(span \div 2) + (i - 1) * p.package.pitch, p.pad_center_y,
                p.pad_size.height, p.pad_size.width, p.pad_size.corner_ratio)]

\* Right column of the quad-lead engine: start_y = span/2, y = start_y - i*pitch.
RightSideQFP(p, n, first) ==
    LET span == (n - 1) * p.package.pitch
    IN  [i \in 1..n |->
            Pad(ToString(first + i - 1), p.pad_type, p.pad_size.shape,
                p.pad_center_x, (span \div 2) - (i - 1) * p.package.pitch,
                p.pad_size.width, p.pad_size.height, p.pad_size.corner_ratio)]

\* Top row of the quad-lead engine: start_x = span/2, x = start_x - i*pitch.
TopSideQFP(p, n, first) ==
    LET span == (n - 1) * p.package.pitch
    IN  [i \in 1..n |->
            Pad(ToString(first + i - 1), p.pad_type, p.pad_size.shape,
                (span \div 2) - (i - 1) * p.package.pitch, -p.pad_center_y,
                p.pad_size.height, p.pad_size.width, p.pad_size.corner_ratio)]

\* A right column numbered downward like the left one: y = start_pos + i * pitch.
RightSideDownward(p, n, first) ==
    LET span == (n - 1) * p.package.pitch
    IN  [i \in 1..n |->
            Pad(ToString(first + i - 1), p.pad_type, p.pad_size.shape,
                p.pad_center_x, -(span \div 2) + (i - 1) * p.package.pitch,
                p.pad_size.width, p.pad_size.height, p.pad_size.corner_ratio)]

\* Right column of the no-lead engine: y = start_pos + (n - 1 - i) * pitch.
RightSideQFN(p, n, first) ==
    LET span == (n - 1) * p.package.pitch
    IN  [i \in 1..n |->
            Pad(ToString(first + i - 1), p.pad_type, p.pad_size.shape,
                p.pad_center_x, -(span \div 2) + (n - 1 - (i - 1)) * p.package.pitch,
                p.pad_size.width, p.pad_size.height, p.pad_size.corner_ratio)]

\* A top row whose pads keep the width and height of the side columns.
TopSideUnswapped(p, n, first) ==
    LET span == (n - 1) * p.package.pitch
    IN  [i \in 1..n |->
            Pad(ToString(first + i - 1), p.pad_type, p.pad_size.shape,
                -(span \div 2) + (n - 1 - (i - 1)) * p.package.pitch, -p.pad_center_y,
                p.pad_size.width, p.pad_size.height, p.pad_size.corner_ratio)]

\* Top row of the no-lead engine: x = start_pos + (n - 1 - i) * pitch.
TopSideQFN(p, n, first) ==
    LET span == (n - 1) * p.package.pitch
    IN  [i \in 1..n |->
            Pad(ToString(first + i - 1), p.pad_type, p.pad_size.shape,
                -(span \div 2) + (n - 1 - (i - 1)) * p.package.pitch, -p.pad_center_y,
                p.pad_size.height, p.pad_size.width, p.pad_size.corner_ratio)]

\* A calculate_pads that falls back to one pin per side, as the silkscreen
\* does (pins_per_side or 1), instead of raising.
QFP_calculate_pads_or_one(p) ==
    LET pps == pins_per_side(p.package)
        n   == IF IsNone(pps) THEN 1 ELSE Val(pps)
    IN  [raised |-> FALSE,
         pads   |-> LeftSide(p, n, 1) \o BottomSide(p, n, n + 1)
                    \o RightSideQFP(p, n, 2 * n + 1)
                    \o TopSideQFP(p, n, 3 * n + 1)]

\* QFPFootprintGenerator.calculate_pads: raises when pins_per_side is None.
QFP_calculate_pads(p) ==
    LET pps == pins_per_side(p.package)
    IN  IF IsNone(pps)
        THEN [raised |-> TRUE, pads |-> <<>>]
        ELSE LET n == Val(pps)
             IN  [raised |-> FALSE,
                  pads   |-> LeftSide(p, n, 1) \o BottomSide(p, n, n + 1)
                             \o RightSideQFP(p, n, 2 * n + 1)
                             \o TopSideQFP(p, n, 3 * n + 1)]

\* QFNFootprintGenerator._calculate_quad_pads
calculate_quad_pads(p) ==
    LET n == effective_pins(p.package) \div 4
    IN  LeftSide(p, n, 1) \o BottomSide(p, n, n + 1)
        \o RightSideQFN(p, n, 2 * n + 1) \o TopSideQFN(p, n, 3 * n + 1)

\* A two-column layout that numbers the right column first.
dual_pads_right_first(p) ==
    LET n == effective_pins(p.package) \div 2
    IN  RightSideQFN(p, n, 1) \o LeftSide(p, n, n + 1)

\* QFNFootprintGenerator._calculate_dual_pads
calculate_dual_pads(p) ==
    LET n == effective_pins(p.package) \div 2
    IN  LeftSide(p, n, 1) \o RightSideQFN(p, n, n + 1)

\* QFNFootprintGenerator.calculate_pads: never raises.
QFN_calculate_pads(p) ==
    [raised |-> FALSE,
     pads   |-> IF is_dual(p.package) THEN calculate_dual_pads(p)
                ELSE calculate_quad_pads(p)]

\* calculate_pads() as dispatched on the instance's class.
calculate_pads(g, p) ==
    IF g = "QFP" THEN QFP_calculate_pads(p) ELSE QFN_calculate_pads(p)

(***************************************************************************)
(* Silkscreen.  Each operator returns what the method appends:             *)
(* [lines |-> ..., circles |-> ...].                                       *)
(***************************************************************************)
\* QFPFootprintGenerator.calculate_silkscreen
QFP_calculate_silkscreen(p) ==
    LET pkg    == p.package
        margin == p.silkscreen_margin
        w      == p.silkscreen_line_width
        bw     == pkg.body_width \div 2
        bh     == pkg.body_length \div 2
        ex     == p.pad_center_x - p.pad_size.width \div 2 - margin
        ey     == p.pad_center_y - p.pad_size.height \div 2 - margin
        pps    == IF IsNone(pins_per_side(pkg)) \/ Val(pins_per_side(pkg)) = 0
                  THEN 1 ELSE Val(pins_per_side(pkg))
        array_half == ((pps - 1) * pkg.pitch) \div 2 + p.pad_size.height \div 2 + margin
        horiz  == IF bw > ex
                  THEN << Line(-bw, -bh, -ex, -bh, "F.SilkS", w),
                          Line(ex, -bh, bw, -bh, "F.SilkS", w),
                          Line(-bw, bh, -ex, bh, "F.SilkS", w),
                          Line(ex, bh, bw, bh, "F.SilkS", w) >>
                  ELSE <<>>
        vert   == IF bh > ey
                  THEN << Line(-bw, -bh, -bw, -ey, "F.SilkS", w),
                          Line(-bw, ey, -bw, bh, "F.SilkS", w),
                          Line(bw, -bh, bw, -ey, "F.SilkS", w),
                          Line(bw, ey, bw, bh, "F.SilkS", w) >>
                  ELSE <<>>
    IN  [lines   |-> horiz \o vert,
         circles |-> << Circle(-p.pad_center_x - p.pad_size.width \div 2 - 500,
                               -array_half, 200, "F.SilkS", w, TRUE) >>]

\* QFNFootprintGenerator.calculate_silkscreen
QFN_calculate_silkscreen(p) ==
    LET pkg    == p.package
        margin == p.silkscreen_margin
        w      == p.silkscreen_line_width
        bw     == pkg.body_width \div 2
        bh     == pkg.body_length \div 2
        pps    == IF IsNone(pins_per_side(pkg)) \/ Val(pins_per_side(pkg)) = 0
                  THEN pkg.pin_count \div 4 ELSE Val(pins_per_side(pkg))
        array_half == ((pps - 1) * pkg.pitch) \div 2 + p.pad_size.height \div 2 + margin
        cl     == Min(1000, (bw * 3) \div 10)
    IN  [lines   |-> << Line(-bw, -bh + cl, -bw, -bh, "F.SilkS", w),
                        Line(-bw, -bh, -bw + cl, -bh, "F.SilkS", w),
                        Line(bw - cl, -bh, bw, -bh, "F.SilkS", w),
                        Line(bw, -bh, bw, -bh + cl, "F.SilkS", w),
                        Line(bw, bh - cl, bw, bh, "F.SilkS", w),
                        Line(bw, bh, bw - cl, bh, "F.SilkS", w),
                        Line(-bw + cl, bh, -bw, bh, "F.SilkS", w),
                        Line(-bw, bh, -bw, bh - cl, "F.SilkS", w) >>,
         circles |-> << Circle(-bw - 500, -array_half, 200, "F.SilkS", w, TRUE) >>]

calculate_silkscreen(g, p) ==
    IF g = "QFP" THEN QFP_calculate_silkscreen(p) ELSE QFN_calculate_silkscreen(p)

(***************************************************************************)
(* footprint/generator.py: courtyard, fabrication outline, texts, thermal  *)
(***************************************************************************)
SetMin(S) == CHOOSE x \in S : \A y \in S : x <= y
SetMax(S) == CHOOSE x \in S : \A y \in S : x >= y

\* round(v, 2) on a length in mm: to the nearest 10 um, ties to even.
Round2(v) ==
    LET q == v \div 10
        r == v % 10
    IN  IF r < 5 THEN 10 * q
        ELSE IF r > 5 THEN 10 * (q + 1)
        ELSE IF q % 2 = 0 THEN 10 * q ELSE 10 * (q + 1)

\* FootprintGenerator.calculate_courtyard: the lines appended, given self.pads.
calculate_courtyard(ps, p) ==
    IF ps = <<>> THEN <<>>
    ELSE LET I    == 1..Len(ps)
             m    == p.courtyard_margin
             w    == p.courtyard_line_width
             minx == Round2(SetMin({ps[i].x - ps[i].width \div 2 : i \in I}) - m)
             maxx == Round2(SetMax({ps[i].x + ps[i].width \div 2 : i \in I}) + m)
             miny == Round2(SetMin({ps[i].y - ps[i].height \div 2 : i \in I}) - m)
             maxy == Round2(SetMax({ps[i].y + ps[i].height \div 2 : i \in I}) + m)
         IN  << Line(minx, miny, maxx, miny, "F.CrtYd", w),
                Line(maxx, miny, maxx, maxy, "F.CrtYd", w),
                Line(maxx, maxy, minx, maxy, "F.CrtYd", w),
                Line(minx, maxy, minx, miny, "F.CrtYd", w) >>

\* FootprintGenerator.calculate_fab_layer: the lines appended.
calculate_fab_layer(p) ==
    LET w  == p.fab_line_width
        bw == p.package.body_width \div 2
        bh == p.package.body_length \div 2
        ch == Min(1000, Min(bw \div 5, bh \div 5))
    IN  << Line(-bw + ch, -bh, bw, -bh, "F.Fab", w),
           Line(bw, -bh, bw, bh, "F.Fab", w),
           Line(bw, bh, -bw, bh, "F.Fab", w),
           Line(-bw, bh, -bw, -bh + ch, "F.Fab", w),
           Line(-bw, -bh + ch, -bw + ch, -bh, "F.Fab", w) >>

\* FootprintGenerator.add_reference_and_value: the texts appended.
add_reference_and_value(p) ==
    << Text("reference", "REF**", 0, -(p.package.body_length \div 2 + 2000), "F.SilkS"),
       Text("value", p.footprint_name, 0, p.package.body_length \div 2 + 2000, "F.Fab") >>

\* One thermal via of add_thermal_pad.
ViaPad(t, x, y) ==
    [number |-> t.pin_number, pad_type |-> "thru_hole", shape |-> "circle",
     x |-> x, y |-> y, width |-> t.via_pad_diameter, height |-> t.via_pad_diameter,
     rotation |-> 0, layers |-> <<"*.Cu">>, roundrect_ratio |-> 25,
     drill |-> Some(t.via_drill), property_heatsink |-> TRUE]

\* A via grid that runs both loops over via_count_x.
ThermalViasSquare(t) ==
    IF total_via_count(t) > 0
    THEN LET sx == t.width \div (t.via_count_x + 1)
             sy == t.height \div (t.via_count_y + 1)
             x0 == -(t.width \div 2) + sx
             y0 == -(t.height \div 2) + sy
         IN  Flatten([i \in 1..t.via_count_x |->
                        [j \in 1..t.via_count_x |->
                            ViaPad(t, x0 + (i - 1) * sx, y0 + (j - 1) * sy)]])
    ELSE <<>>

\* The via grid of add_thermal_pad: for i in range(count_x): for j in range(count_y).
ThermalVias(t) ==
    IF total_via_count(t) > 0
    THEN LET sx == t.width \div (t.via_count_x + 1)
             sy == t.height \div (t.via_count_y + 1)
             x0 == -(t.width \div 2) + sx
             y0 == -(t.height \div 2) + sy
         IN  Flatten([i \in 1..t.via_count_x |->
                        [j \in 1..t.via_count_y |->
                            ViaPad(t, x0 + (i - 1) * sx, y0 + (j - 1) * sy)]])
    ELSE <<>>

\* A thermal pad appended after its vias.
add_thermal_pad_vias_first(t) ==
    ThermalVias(t)
    \o << [Pad(t.pin_number, "smd", "rect", 0, 0, t.width, t.height, 25)
              EXCEPT !.layers = <<"F.Cu", "F.Mask">>] >>

\* FootprintGenerator.add_thermal_pad: the pads appended.
add_thermal_pad(t) ==
    << [Pad(t.pin_number, "smd", "rect", 0, 0, t.width, t.height, 25)
            EXCEPT !.layers = <<"F.Cu", "F.Mask">>] >>
    \o ThermalVias(t)

(***************************************************************************)
(* footprint/generator.py: serialization.  The returned text is modelled   *)
(* as the sequence of its S-expression elements, one record per element,   *)
(* in the order _build_sexpr emits them.                                   *)
(***************************************************************************)
KICAD_VERSION == 20241229

\* f"{v:.4f}" of a length in mm: the value in units of 0.0001 mm.
Fmt4(v) == v * 10

format_text(t, id) ==
    [kind |-> "fp_text", text_type |-> t.text_type, text |-> t.text,
     at |-> <<Fmt4(t.x), Fmt4(t.y)>>, layer |-> t.layer, hide |-> t.hide,
     size |-> t.font_size, thickness |-> t.font_thickness, uuid |-> id]

format_line(l, id) ==
    [kind |-> "fp_line", start |-> <<Fmt4(l.x1), Fmt4(l.y1)>>,
     end |-> <<Fmt4(l.x2), Fmt4(l.y2)>>, width |-> l.width, layer |-> l.layer,
     uuid |-> id]

format_circle(c, id) ==
    [kind |-> "fp_circle", center |-> <<Fmt4(c.cx), Fmt4(c.cy)>>,
     end |-> <<Fmt4(c.cx + c.radius), Fmt4(c.cy)>>, width |-> c.width,
     fill |-> IF c.fill THEN "solid" ELSE "none", layer |-> c.layer, uuid |-> id]

format_arc(a, id) ==
    [kind |-> "fp_arc", start |-> <<Fmt4(a.start_x), Fmt4(a.start_y)>>,
     mid |-> <<Fmt4(a.mid_x), Fmt4(a.mid_y)>>,
     end |-> <<Fmt4(a.end_x), Fmt4(a.end_y)>>, width |-> a.width,
     layer |-> a.layer, uuid |-> id]

format_pad(pd, id) ==
    [kind |-> "pad", number |-> pd.number, pad_type |-> pd.pad_type,
     shape |-> pd.shape,
     at |-> IF pd.rotation # 0 THEN <<Fmt4(pd.x), Fmt4(pd.y), pd.rotation>>
            ELSE <<Fmt4(pd.x), Fmt4(pd.y)>>,
     size |-> <<Fmt4(pd.width), Fmt4(pd.height)>>,
     drill |-> IF IsNone(pd.drill) THEN None ELSE Some(Fmt4(Val(pd.drill))),
     layers |-> pd.layers,
     roundrect_rratio |-> IF pd.shape = "roundrect" THEN Some(pd.roundrect_ratio)
                          ELSE None,
     heatsink |-> pd.property_heatsink, uuid |-> id]

\* The header lines of _build_sexpr, up to the attribute line.
Header(p, day) ==
    << [kind |-> "footprint", name |-> p.footprint_name, version |-> KICAD_VERSION,
        generator |-> "kiforge", generator_version |-> day, layer |-> "F.Cu"] >>
    \o (IF p.description # "" THEN << [kind |-> "descr", text |-> p.description] >>
        ELSE <<>>)
    \o (IF p.tags # <<>> THEN << [kind |-> "tags", tags |-> p.tags] >> ELSE <<>>)
    \o (IF p.pad_type = "smd" THEN << [kind |-> "attr", attr |-> "smd"] >>
        ELSE IF p.pad_type = "thru_hole"
             THEN << [kind |-> "attr", attr |-> "through_hole"] >>
             ELSE <<>>)

\* FootprintGenerator._build_sexpr on geometry g at date `day`; the uuid4()
\* values drawn are u+1, u+2, ... in the order of the calls.
build_sexpr(g, p, day, u) ==
    LET nt == Len(g.texts)
        nl == Len(g.lines)
        nc == Len(g.circles)
        na == Len(g.arcs)
    IN  Header(p, day)
        \o [i \in 1..nt |-> format_text(g.texts[i], u + i)]
        \o [i \in 1..nl |-> format_line(g.lines[i], u + nt + i)]
        \o [i \in 1..nc |-> format_circle(g.circles[i], u + nt + nl + i)]
        \o [i \in 1..na |-> format_arc(g.arcs[i], u + nt + nl + nc + i)]
        \o [i \in 1..Len(g.pads) |-> format_pad(g.pads[i], u + nt + nl + nc + na + i)]
        \o (IF ~IsNone(p.model_3d_path)
            THEN << [kind |-> "model", path |-> Val(p.model_3d_path)] >> ELSE <<>>)
        \o << [kind |-> "close"] >>

\* Number of uuid4() values one _build_sexpr call draws.
UuidsDrawn(g) ==
    Len(g.texts) + Len(g.lines) + Len(g.circles) + Len(g.arcs) + Len(g.pads)

(***************************************************************************)
(* FootprintGenerator.generate: the pipeline.  g0 is the instance's        *)
(* geometry when the call starts; the result holds the geometry when the   *)
(* call ends (by return or by raise) and the text returned, if any.        *)
(***************************************************************************)
\* A clearing step that forgets every list but the pads.
ClearPadsOnly(g0) == [g0 EXCEPT !.pads = <<>>]

\* self.pads.clear() ... self.texts.clear()
ClearGeo(g0) == EmptyGeo

generate(cls, g0, p, day, u) ==
    LET c0 == ClearGeo(g0)
        cp == calculate_pads(cls, p)
    IN  IF cp.raised
        THEN [raised |-> TRUE, geo |-> c0, text |-> <<>>]
        ELSE LET c1 == [c0 EXCEPT !.pads = @ \o cp.pads]
                 ss == calculate_silkscreen(cls, p)
                 c2 == [c1 EXCEPT !.lines = @ \o ss.lines,
                                  !.circles = @ \o ss.circles]
                 c3 == [c2 EXCEPT !.lines = @ \o calculate_courtyard(c2.pads, p)]
                 c4 == [c3 EXCEPT !.lines = @ \o calculate_fab_layer(p)]
                 c5 == [c4 EXCEPT !.texts = @ \o add_reference_and_value(p)]
                 c6 == IF params_has_thermal_pad(p) /\ ~IsNone(params_thermal_pad(p))
                       THEN [c5 EXCEPT
                               !.pads = @ \o add_thermal_pad(Val(params_thermal_pad(p)))]
                       ELSE c5
             IN  [raised |-> FALSE, geo |-> c6, text |-> build_sexpr(c6, p, day, u)]

(***************************************************************************)
(* Inputs of the footprint engine: the FootprintParams values an instance  *)
(* is constructed with.  PackageInfo and FootprintParams validate field    *)
(* ranges only (pin_count > 0, lengths > 0); pad_center_x/y are any float. *)
(***************************************************************************)
\* One family per branch of is_quad / is_dual / is_leaded: quad leaded,
\* quad leadless, dual leadless, ball-grid (neither quad nor dual).
PackageTypes == {"LQFP", "QFN", "DFN", "BGA"}

ThermalPad(w, h, cx, cy, des) ==
    [width |-> w, height |-> h, via_count_x |-> cx, via_count_y |-> cy,
     via_drill |-> 300, via_pad_diameter |-> 500, pin_number |-> des]

PackageThermals == {ThermalPad(3000, 3000, cx, cy, "EP") : cx, cy \in 0..MaxVia}

OverrideThermal == ThermalPad(2400, 1200, 1, 2, "PAD")

\* <<package.thermal_pad, thermal_pad_override>>
ThermalConfigs ==
    {<<None, None>>, <<None, Some(OverrideThermal)>>,
     <<Some(ThermalPad(3000, 3000, MaxVia, MaxVia, "EP")), Some(OverrideThermal)>>}
    \cup {<<Some(t), None>> : t \in PackageThermals}

\* pitch, body, pad size and pad-centre offsets, in micrometres.
\* The 48-pin LQFP of the tests: square body, positive offsets.
BaseProfile ==
    [pitch |-> 500, body_width |-> 7000, body_length |-> 7000,
     pad_size |-> [width |-> 1500, height |-> 300, shape |-> "roundrect",
                   corner_ratio |-> 25],
     pad_center_x |-> 4250, pad_center_y |-> 4250, description |-> "",
     tags |-> <<>>, model_3d_path |-> None]

\* A rectangular body with rectangular pads, tags and a 3D model.
RectProfile ==
    [pitch |-> 800, body_width |-> 5000, body_length |-> 7000,
     pad_size |-> [width |-> 700, height |-> 400, shape |-> "rect",
                   corner_ratio |-> 25],
     pad_center_x |-> 2400, pad_center_y |-> 3400, description |-> "QFN",
     tags |-> <<"QFN", "EP">>, model_3d_path |-> Some("m.step")]

\* Pad-centre offsets that are not positive (the fields are unconstrained).
OffsetProfile ==
    [BaseProfile EXCEPT !.pad_center_x = 0, !.pad_center_y = -4250]

Profiles == {BaseProfile, RectProfile, OffsetProfile}

\* The thermal configuration and the profile each range over all their
\* values, one at a time around the base, and jointly for two thermal
\* configurations.
Variants ==
    {<<tc, BaseProfile>> : tc \in ThermalConfigs}
    \cup {<<tc, pr>> :
            tc \in {<<None, None>>,
                    <<Some(ThermalPad(3000, 3000, MaxVia, MaxVia, "EP")), None>>},
            pr \in Profiles}

FootprintParams(ptype, n, tc, pr) ==
    [footprint_name |-> "FP",
     description    |-> pr.description,
     tags           |-> pr.tags,
     package        |-> [package_type |-> ptype, pin_count |-> n,
                         pitch |-> pr.pitch, body_width |-> pr.body_width,
                         body_length |-> pr.body_length, thermal_pad |-> tc[1]],
     pad_size       |-> pr.pad_size,
     pad_type       |-> "smd",
     pad_center_x   |-> pr.pad_center_x,
     pad_center_y   |-> pr.pad_center_y,
     courtyard_margin      |-> 250,
     courtyard_line_width  |-> 50,
     silkscreen_margin     |-> 150,
     silkscreen_line_width |-> 120,
     fab_line_width        |-> 100,
     thermal_pad_override  |-> tc[2],
     model_3d_path  |-> pr.model_3d_path]

\* The field constraints PackageInfo validates (Field(..., gt=0)); no
\* validator relates pin_count to package_type.
PackageInfo_valid(pkg) ==
    /\ pkg.pin_count > 0
    /\ pkg.pitch > 0
    /\ pkg.body_width > 0
    /\ pkg.body_length > 0

\* The field constraints ThermalPad validates.
ThermalPad_valid(t) ==
    /\ t.width > 0 /\ t.height > 0
    /\ t.via_count_x >= 0 /\ t.via_count_y >= 0
    /\ t.via_drill > 0 /\ t.via_pad_diameter > 0

\* The field constraints PadDimensions and FootprintParams validate, on top
\* of those of the objects they hold.
FootprintParams_valid(p) ==
    /\ p.footprint_name # ""
    /\ PackageInfo_valid(p.package)
    /\ \A i \in 1..Len(p.package.thermal_pad) : ThermalPad_valid(p.package.thermal_pad[i])
    /\ \A i \in 1..Len(p.thermal_pad_override) : ThermalPad_valid(p.thermal_pad_override[i])
    /\ p.pad_size.width > 0 /\ p.pad_size.height > 0
    /\ p.pad_size.corner_ratio >= 0 /\ p.pad_size.corner_ratio <= 50
    /\ p.courtyard_margin > 0 /\ p.courtyard_line_width > 0
    /\ p.silkscreen_margin > 0 /\ p.silkscreen_line_width > 0
    /\ p.fab_line_width > 0

\* The parameter objects whose construction succeeds.
ParamsSpace ==
    {p \in {FootprintParams(ptype, n, v[1], v[2]) :
                ptype \in PackageTypes, n \in 0..MaxPinCount, v \in Variants} :
        FootprintParams_valid(p)}

NoCall == [op |-> "none", raised |-> FALSE, text |-> <<>>]

\* The values the variables of the other parts keep while one part runs.
IdleFootprint ==
    /\ gen = "none" /\ params = <<>> /\ pads = <<>> /\ lines = <<>>
    /\ circles = <<>> /\ arcs = <<>> /\ texts = <<>>
    /\ fpOut = NoCall /\ fpLog = <<>>
IdleSymbol    == component = <<>> /\ layouts = <<>> /\ symOut = NoCall /\ symLog = <<>>
IdleComponent == rawPins = <<>> /\ compOut = NoCall
IdleCreate    == createOut = NoCall
IdleEngines   == engines = <<>>
NotSorting    == [returned |-> FALSE, pins |-> <<>>]
IdleSorting   == sigPins = <<>> /\ sigOut = NotSorting

(***************************************************************************)
(* The footprint engine: one instance, constructed with some parameters,   *)
(* on which the caller calls generate() and the public calculate_*().      *)
(***************************************************************************)
CurrentGeo == Geo(pads, lines, circles, arcs, texts)

\* FootprintGenerator.__init__
InitFootprint ==
    /\ gen \in {"QFP", "QFN"}
    /\ params \in ParamsSpace
    /\ pads = <<>> /\ lines = <<>> /\ circles = <<>> /\ arcs = <<>> /\ texts = <<>>
    /\ fpOut = NoCall
    /\ fpLog = <<>>
    /\ today = 0 /\ uuidCtr = 0
    /\ IdleSymbol /\ IdleComponent /\ IdleCreate /\ IdleEngines /\ IdleSorting

\* generator.generate()
Generate ==
    /\ Len(fpLog) < MaxCalls
    /\ \E r \in {generate(gen, CurrentGeo, params, today, uuidCtr)} :
           /\ pads' = r.geo.pads
           /\ lines' = r.geo.lines
           /\ circles' = r.geo.circles
           /\ arcs' = r.geo.arcs
           /\ texts' = r.geo.texts
           /\ fpOut' = [op |-> "generate", raised |-> r.raised, text |-> r.text]
           /\ uuidCtr' = IF r.raised THEN uuidCtr ELSE uuidCtr + UuidsDrawn(r.geo)
    /\ fpLog' = Append(fpLog, "generate")
    /\ UNCHANGED <<gen, params, today, symVars, compVars, createOut,
        engines, sigVars>>

\* generator.calculate_pads(), called directly as the tests do
CalculatePads ==
    /\ Len(fpLog) < MaxCalls
    /\ \E cp \in {calculate_pads(gen, params)} :
           /\ pads' = IF cp.raised THEN pads ELSE pads \o cp.pads
           /\ fpOut' = [op |-> "calculate_pads", raised |-> cp.raised, text |-> <<>>]
    /\ fpLog' = Append(fpLog, "calculate_pads")
    /\ UNCHANGED <<gen, params, lines, circles, arcs, texts, envVars,
                   symVars, compVars, createOut, engines, sigVars>>

\* generator.calculate_silkscreen(), called directly
CalculateSilkscreen ==
    /\ Len(fpLog) < MaxCalls
    /\ \E ss \in {calculate_silkscreen(gen, params)} :
           /\ lines' = lines \o ss.lines
           /\ circles' = circles \o ss.circles
    /\ fpOut' = [op |-> "calculate_silkscreen", raised |-> FALSE, text |-> <<>>]
    /\ fpLog' = Append(fpLog, "calculate_silkscreen")
    /\ UNCHANGED <<gen, params, pads, arcs, texts, envVars,
                   symVars, compVars, createOut, engines, sigVars>>

\* A day passes: datetime.now() is read anew by every serialization.
Tick ==
    /\ today < MaxDay
    /\ today' = today + 1
    /\ UNCHANGED <<fpVars, uuidCtr, symVars, compVars, createOut,
        engines, sigVars>>

NextFootprint == Generate \/ CalculatePads \/ CalculateSilkscreen \/ Tick

SpecFootprint == InitFootprint /\ [][NextFootprint]_vars

(***************************************************************************)
(* One engine instance of either kind and the calls that take inputs:      *)
(* generate() of a footprint engine, layout_pins() and generate() of the   *)
(* symbol engine.  The symbol actions are defined with the symbol engine   *)
(* below.                                                                  *)
(***************************************************************************)
FootprintCall == gen # "none" /\ Generate

(***************************************************************************)
(* footprint/qfp.py, footprint/qfn.py: the convenience constructors.  Each *)
(* operator returns the outcome of one call: whether it raised and with    *)
(* which error, the objects constructed up to that point, in order, and    *)
(* the text returned.                                                      *)
(***************************************************************************)
\* str.upper() on the variant names the callers pass.
upper ==
    [s \in {"LQFP", "TQFP", "QFP", "lqfp", "HQFP",
            "QFN", "VQFN", "WQFN", "DFN", "dfn", "UQFN"} |->
        CASE s = "lqfp" -> "LQFP"
          [] s = "dfn"  -> "DFN"
          [] OTHER      -> s]

\* str(x) of a float length in mm: "7.0", "0.5", "2.45".
FloatStr(v) ==
    LET whole == v \div 1000
        frac  == v % 1000
    IN  ToString(whole) \o "." \o
        (IF frac % 100 = 0 THEN ToString(frac \div 100)
         ELSE IF frac % 10 = 0
              THEN ToString(frac \div 100) \o ToString((frac \div 10) % 10)
              ELSE ToString(frac \div 100) \o ToString((frac \div 10) % 10)
                   \o ToString(frac % 10))

Raised(err, made) ==
    [raised |-> TRUE, error |-> err, constructed |-> made, text |-> <<>>]

\* The pin-count check of create_qfp_footprint.
qfp_pin_count_invalid(pins) == pins % 4 # 0

create_qfp_footprint(pins, pitch, body_width, body_length, lead_span, variant, day, u) ==
    IF qfp_pin_count_invalid(pins) THEN Raised("ValueError", <<>>)
    ELSE
    LET lead_width == (pitch * 6) \div 10
        variant_upper == upper[variant]
        pkg_type == IF variant_upper \in {"LQFP", "TQFP", "VQFP", "QFP"}
                    THEN variant_upper ELSE "LQFP"
        package == [package_type |-> pkg_type, pin_count |-> pins, pitch |-> pitch,
                    body_width |-> body_width, body_length |-> body_length,
                    thermal_pad |-> None]
        pad_length == (lead_span - body_width) \div 2 + 500
        pad_width  == (pitch * 55) \div 100
        pad_size   == [width |-> pad_length, height |-> pad_width,
                       shape |-> "roundrect", corner_ratio |-> 25]
        pad_center == body_width \div 2 + pad_length \div 2
        fp_name    == variant \o "-" \o ToString(pins) \o "_" \o FloatStr(body_width)
                      \o "x" \o FloatStr(body_length) \o "mm_P" \o FloatStr(pitch)
                      \o "mm"
        p == [footprint_name |-> fp_name,
              description    |-> variant \o ", " \o ToString(pins) \o " Pin",
              tags           |-> <<variant, "QFP", ToString(pins) \o "-pin">>,
              package        |-> package,
              pad_size       |-> pad_size,
              pad_type       |-> "smd",
              pad_center_x   |-> pad_center,
              pad_center_y   |-> pad_center,
              courtyard_margin      |-> 250,
              courtyard_line_width  |-> 50,
              silkscreen_margin     |-> 150,
              silkscreen_line_width |-> 120,
              fab_line_width        |-> 100,
              thermal_pad_override  |-> None,
              model_3d_path  |-> None]
    IN  IF ~PackageInfo_valid(package) THEN Raised("ValidationError", <<>>)
        ELSE IF ~(pad_length > 0 /\ pad_width > 0)
        THEN Raised("ValidationError", <<"PackageInfo">>)
        ELSE IF ~FootprintParams_valid(p)
        THEN Raised("ValidationError", <<"PackageInfo", "PadDimensions">>)
        ELSE LET r == generate("QFP", EmptyGeo, p, day, u)
             IN  [raised |-> r.raised,
                  error  |-> IF r.raised THEN "ValueError" ELSE "",
                  constructed |-> <<"PackageInfo", "PadDimensions", "FootprintParams",
                                    "QFPFootprintGenerator">>,
                  text   |-> r.text]

\* A pin-count check that asks for an even count whatever the variant.
qfn_pin_count_odd(variant_upper, pins) == pins % 2 # 0

\* The pin-count check of create_qfn_footprint.
qfn_pin_count_invalid(variant_upper, pins) ==
    IF variant_upper = "DFN" THEN pins % 2 # 0 ELSE pins % 4 # 0

create_qfn_footprint(pins, pitch, body_width, body_length_arg, thermal_pad_size_arg, variant, day, u) ==
    LET body_length == IF IsNone(body_length_arg) THEN body_width
                       ELSE Val(body_length_arg)
        terminal_length == 400
        terminal_width  == (pitch * 5) \div 10
        thermal_pad_size == IF IsNone(thermal_pad_size_arg)
                            THEN (Min(body_width, body_length) * 6) \div 10
                            ELSE Val(thermal_pad_size_arg)
        variant_upper == upper[variant]
    IN
    IF qfn_pin_count_invalid(variant_upper, pins) THEN Raised("ValueError", <<>>)
    ELSE
    LET pkg_type == IF variant_upper \in {"DFN", "VQFN", "WQFN"} THEN variant_upper
                    ELSE "QFN"
        thermal_pad == ThermalPad(thermal_pad_size, thermal_pad_size, 3, 3, "EP")
        package == [package_type |-> pkg_type, pin_count |-> pins + 1, pitch |-> pitch,
                    body_width |-> body_width, body_length |-> body_length,
                    thermal_pad |-> Some(thermal_pad)]
        pad_length == terminal_length + 300
        pad_width  == terminal_width
        pad_size   == [width |-> pad_length, height |-> pad_width,
                       shape |-> "roundrect", corner_ratio |-> 25]
        pad_center == body_width \div 2 - terminal_length \div 2 + 150
        fp_name    == variant_upper \o "-" \o ToString(pins) \o "-1EP_"
                      \o FloatStr(body_width) \o "x" \o FloatStr(body_length)
                      \o "mm_P" \o FloatStr(pitch) \o "mm_EP"
                      \o FloatStr(thermal_pad_size) \o "x"
                      \o FloatStr(thermal_pad_size) \o "mm"
        p == [footprint_name |-> fp_name,
              description    |-> variant_upper \o ", " \o ToString(pins) \o " Pin",
              tags           |-> <<variant_upper, "QFN", "DFN",
                                   ToString(pins) \o "-pin", "EP">>,
              package        |-> package,
              pad_size       |-> pad_size,
              pad_type       |-> "smd",
              pad_center_x   |-> pad_center,
              pad_center_y   |-> pad_center,
              courtyard_margin      |-> 250,
              courtyard_line_width  |-> 50,
              silkscreen_margin     |-> 150,
              silkscreen_line_width |-> 120,
              fab_line_width        |-> 100,
              thermal_pad_override  |-> None,
              model_3d_path  |-> None]
    IN  IF ~ThermalPad_valid(thermal_pad) THEN Raised("ValidationError", <<>>)
        ELSE IF ~PackageInfo_valid(package)
        THEN Raised("ValidationError", <<"ThermalPad">>)
        ELSE IF ~(pad_length > 0 /\ pad_width > 0)
        THEN Raised("ValidationError", <<"ThermalPad", "PackageInfo">>)
        ELSE IF ~FootprintParams_valid(p)
        THEN Raised("ValidationError", <<"ThermalPad", "PackageInfo", "PadDimensions">>)
        ELSE LET r == generate("QFN", EmptyGeo, p, day, u)
             IN  [raised |-> r.raised,
                  error  |-> IF r.raised THEN "ValueError" ELSE "",
                  constructed |-> <<"ThermalPad", "PackageInfo", "PadDimensions",
                                    "FootprintParams", "QFNFootprintGenerator">>,
                  text   |-> r.text]

\* The arguments the callers pass: pin counts from -1 up, two pitches, a
\* square and a rectangular body, each variant name the code tells apart.
CreatePins    == (-1)..MaxPinCount
CreatePitches == {500, 800}
CreateBodies  == {<<7000, 7000>>, <<5000, 7000>>}
QFPVariants   == {"LQFP", "TQFP", "QFP", "lqfp", "HQFP"}
QFNVariants   == {"QFN", "VQFN", "WQFN", "DFN", "dfn", "UQFN"}

InitCreate ==
    /\ createOut = NoCall
    /\ today = 0 /\ uuidCtr = 0
    /\ IdleFootprint /\ IdleSymbol /\ IdleComponent /\ IdleEngines /\ IdleSorting

\* create_qfp_footprint(pins, pitch, body_width, body_length, lead_span, variant=...)
CreateQFP ==
    /\ createOut.op = "none"
    /\ \E pins \in CreatePins, pitch \in CreatePitches, body \in CreateBodies,
          variant \in QFPVariants :
         \E r \in {create_qfp_footprint(pins, pitch, body[1], body[2],
                                        body[1] + 2000, variant, today, uuidCtr)} :
            /\ createOut' = [op |-> "create_qfp_footprint",
                             pins |-> pins, variant |-> variant,
                             pitch |-> pitch, body |-> body,
                             raised |-> r.raised, error |-> r.error,
                             constructed |-> r.constructed, text |-> r.text]
            /\ uuidCtr' = uuidCtr + Cardinality({i \in 1..Len(r.text) :
                                                    "uuid" \in DOMAIN r.text[i]})
    /\ UNCHANGED <<fpVars, today, symVars, compVars, engines, sigVars>>

\* create_qfn_footprint(pins, pitch, body_width, body_length=..., thermal_pad_size=..., variant=...)
CreateQFN ==
    /\ createOut.op = "none"
    /\ \E pins \in CreatePins, body_length \in {None, Some(7000)},
          thermal_pad_size \in {None, Some(2000)}, variant \in QFNVariants :
         \E r \in {create_qfn_footprint(pins, 500, 5000, body_length,
                                        thermal_pad_size, variant, today, uuidCtr)} :
            /\ createOut' = [op |-> "create_qfn_footprint",
                             pins |-> pins, variant |-> variant,
                             pitch |-> 500, body |-> <<5000, body_length>>,
                             thermal_pad_size |-> thermal_pad_size,
                             raised |-> r.raised, error |-> r.error,
                             constructed |-> r.constructed, text |-> r.text]
            /\ uuidCtr' = uuidCtr + Cardinality({i \in 1..Len(r.text) :
                                                    "uuid" \in DOMAIN r.text[i]})
    /\ UNCHANGED <<fpVars, today, symVars, compVars, engines, sigVars>>

NextCreate == CreateQFP \/ CreateQFN \/ Tick

SpecCreate == InitCreate /\ [][NextCreate]_vars

(***************************************************************************)
(* Text values of pins.  A pin number or name is a sequence of one-        *)
(* character strings, so that trimming, case folding, substring tests and  *)
(* the ordering of str are computed as Python computes them.               *)
(***************************************************************************)
\* The characters used, in code-point order.
CodePoints ==
    <<"\t", " ", "\"", "+", "0", "1", "2", "3", "4", "5", "6", "7", "8", "9",
      "A", "B", "C", "D", "E", "F", "G", "H", "I", "J", "K", "L", "M", "N", "O",
      "P", "Q", "R", "S", "T", "U", "V", "W", "X", "Y", "Z", "\\", "_",
      "a", "b", "c", "d", "e", "f", "g", "h", "i", "j", "k", "l", "m", "n", "o",
      "p", "q", "r", "s", "t", "u", "v", "w", "x", "y", "z">>

\* ord(c), up to an order-preserving renumbering.
ord == [c \in Range(CodePoints) |->
            CHOOSE i \in 1..Len(CodePoints) : CodePoints[i] = c]

\* str.lower() and str.upper(), character by character.
lower_char ==
    [c \in Range(CodePoints) |->
        IF ord[c] >= ord["A"] /\ ord[c] <= ord["Z"]
        THEN CodePoints[ord[c] - ord["A"] + ord["a"]] ELSE c]

upper_char ==
    [c \in Range(CodePoints) |->
        IF ord[c] >= ord["a"] /\ ord[c] <= ord["z"]
        THEN CodePoints[ord[c] - ord["a"] + ord["A"]] ELSE c]

RECURSIVE str_lower(_)
str_lower(s) ==
    IF s = <<>> THEN <<>> ELSE <<lower_char[Head(s)]>> \o str_lower(Tail(s))

RECURSIVE str_upper(_)
str_upper(s) ==
    IF s = <<>> THEN <<>> ELSE <<upper_char[Head(s)]>> \o str_upper(Tail(s))

Whitespace == {" ", "\t"}

\* str.strip()
RECURSIVE lstrip(_)
lstrip(s) == IF s # <<>> /\ Head(s) \in Whitespace THEN lstrip(Tail(s)) ELSE s

RECURSIVE rstrip(_)
rstrip(s) ==
    IF s # <<>> /\ s[Len(s)] \in Whitespace THEN rstrip(SubSeq(s, 1, Len(s) - 1))
    ELSE s

strip(s) == rstrip(lstrip(s))

\* `t in s` on strings
Contains(s, t) ==
    \E i \in 1..(Len(s) - Len(t) + 1) : \A j \in 1..Len(t) : s[i + j - 1] = t[j]

\* s.endswith(c) for one character c
EndsWith(s, c) == s # <<>> /\ s[Len(s)] = c

\* s < t on strings: by code point, a proper prefix first.
RECURSIVE StrLess(_, _)
StrLess(s, t) ==
    IF t = <<>> THEN FALSE
    ELSE IF s = <<>> THEN TRUE
    ELSE IF Head(s) = Head(t) THEN StrLess(Tail(s), Tail(t))
    ELSE ord[Head(s)] < ord[Head(t)]

\* k < l on tuples of strings, as Python compares sort keys.
RECURSIVE KeyLess(_, _)
KeyLess(k, l) ==
    IF l = <<>> THEN FALSE
    ELSE IF k = <<>> THEN TRUE
    ELSE IF Head(k) = Head(l) THEN KeyLess(Tail(k), Tail(l))
    ELSE StrLess(Head(k), Head(l))

\* list.sort(key=...): stable, ascending; key maps each element to its key.
RECURSIVE InsertByKey(_, _, _)
InsertByKey(sorted, x, key) ==
    IF sorted = <<>> THEN <<x>>
    ELSE IF KeyLess(key[x], key[Head(sorted)]) THEN <<x>> \o sorted
    ELSE <<Head(sorted)>> \o InsertByKey(Tail(sorted), x, key)

RECURSIVE SortedBy(_, _)
SortedBy(s, key) ==
    IF s = <<>> THEN <<>>
    ELSE InsertByKey(SortedBy(SubSeq(s, 1, Len(s) - 1), key), s[Len(s)], key)

(***************************************************************************)
(* models/pin.py, models/component.py                                      *)
(***************************************************************************)
\* A validator that keeps the value as supplied.
keep_whitespace(v) == v

\* Pin.strip_whitespace (mode="before"): runs on number and name before
\* the min_length check.
strip_whitespace(v) == strip(v)

\* Pin(number=..., name=..., ...): the validated pin, or a validation error
\* when the trimmed number or name is empty.
Pin(raw) ==
    LET number == strip_whitespace(raw.number)
        name   == strip_whitespace(raw.name)
    IN  IF Len(number) < 1 \/ Len(name) < 1 \/ raw.unit < 1
        THEN [raised |-> TRUE, pin |-> <<>>]
        ELSE [raised |-> FALSE,
              pin |-> [number |-> number, name |-> name,
                       electrical_type |-> raw.electrical_type,
                       graphic_style |-> "line", unit |-> raw.unit]]

GroundNames ==
    {<<"g", "n", "d">>, <<"v", "s", "s">>, <<"g", "r", "o", "u", "n", "d">>,
     <<"a", "g", "n", "d">>, <<"d", "g", "n", "d">>, <<"a", "v", "s", "s">>,
     <<"d", "v", "s", "s">>}

SupplyNames ==
    {<<"v", "c", "c">>, <<"v", "d", "d">>, <<"a", "v", "d", "d">>,
     <<"d", "v", "d", "d">>, <<"v", "b", "a", "t">>, <<"v", "+">>,
     <<"v", "i", "n">>, <<"v", "c", "o", "r", "e">>}

is_ground(pin) == \E gnd \in GroundNames : Contains(str_lower(pin.name), gnd)

is_supply(pin) == \E pwr \in SupplyNames : Contains(str_lower(pin.name), pwr)

is_nc(pin) == pin.electrical_type = "no_connect"

\* ComponentInfo.validate_unique_pin_numbers: TRUE when it raises.
validate_unique_pin_numbers(pins) ==
    Len(pins) # Cardinality({pins[i].number : i \in 1..Len(pins)})

\* ComponentInfo(name=..., pins=pins): the component, or a validation error.
ComponentInfo(name, pins) ==
    IF name = "" \/ validate_unique_pin_numbers(pins)
    THEN [raised |-> TRUE, component |-> <<>>]
    ELSE [raised |-> FALSE,
          component |-> [name |-> name, reference_prefix |-> "U",
                         description |-> "", datasheet_url |-> None,
                         primary_package |-> None, pins |-> pins]]

(***************************************************************************)
(* symbol/generator.py: layout.  Lengths in micrometres.                   *)
(***************************************************************************)
PIN_LENGTH  == 2540
PIN_SPACING == 2540
FONT_SIZE   == 1270
LINE_WIDTH  == 254

\* round(x): to the nearest integer, ties to even, for x = num / den >= 0.
RoundHalfEven(num, den) ==
    LET q == num \div den
        r == num % den
    IN  IF 2 * r < den THEN q
        ELSE IF 2 * r > den THEN q + 1
        ELSE IF q % 2 = 0 THEN q ELSE q + 1

\* round(v / PIN_SPACING) * PIN_SPACING
RoundToGrid(v) == RoundHalfEven(v, PIN_SPACING) * PIN_SPACING

SymbolPin(pin, x, y, orientation) ==
    [pin |-> pin, x |-> x, y |-> y, orientation |-> orientation]

\* A column placed at the mirrored abscissa.
SidePinsMirrored(side, x, orientation) ==
    LET y_start == ((Len(side) - 1) * PIN_SPACING) \div 2
    IN  [i \in 1..Len(side) |->
            SymbolPin(side[i], -x, y_start - (i - 1) * PIN_SPACING, orientation)]

\* Pins down one vertical side: y_start = (n-1)*PIN_SPACING/2, y = y_start - i*PIN_SPACING.
SidePins(side, x, orientation) ==
    LET y_start == ((Len(side) - 1) * PIN_SPACING) \div 2
    IN  [i \in 1..Len(side) |->
            SymbolPin(side[i], x, y_start - (i - 1) * PIN_SPACING, orientation)]

\* Pins along one horizontal side: x_start = -(n-1)*PIN_SPACING/2, x = x_start + i*PIN_SPACING.
RowPins(side, y, orientation) ==
    LET x_start == -(((Len(side) - 1) * PIN_SPACING) \div 2)
    IN  [i \in 1..Len(side) |->
            SymbolPin(side[i], x_start + (i - 1) * PIN_SPACING, y, orientation)]

\* The SymbolLayout built from the four sides (both layout methods end so).
SymbolLayout(unit, unit_name, left_side, right_side, top_side, bottom_side, max_side_pins, max_tb_pins, is_power) ==
    LET height == RoundToGrid(Max(max_side_pins * PIN_SPACING + 2 * PIN_SPACING, 10160))
        width  == RoundToGrid(Max(max_tb_pins * PIN_SPACING + 4 * PIN_SPACING, 10160))
    IN  [unit |-> unit, name |-> unit_name, width |-> width, height |-> height,
         left_pins   |-> SidePins(left_side, -(width \div 2) - PIN_LENGTH, "0"),
         right_pins  |-> SidePins(right_side, width \div 2 + PIN_LENGTH, "180"),
         top_pins    |-> RowPins(top_side, height \div 2 + PIN_LENGTH, "270"),
         bottom_pins |-> RowPins(bottom_side, -(height \div 2) - PIN_LENGTH, "90"),
         is_power_unit |-> is_power]

\* SymbolLayout(): the dataclass defaults.
DefaultLayout ==
    [unit |-> 1, name |-> "", width |-> 10160, height |-> 10160,
     left_pins |-> <<>>, right_pins |-> <<>>, top_pins |-> <<>>,
     bottom_pins |-> <<>>, is_power_unit |-> FALSE]

\* A variant of the chain that tests the supply pattern before the ground
\* pattern.
CategorySupplyFirst(pin) ==
    IF is_supply(pin) THEN "power"
    ELSE IF is_ground(pin) THEN "ground"
    ELSE IF pin.electrical_type = "input" THEN "input"
    ELSE IF pin.electrical_type = "output" THEN "output"
    ELSE IF pin.electrical_type = "bidirectional" THEN "bidir"
    ELSE IF pin.electrical_type = "no_connect" THEN "nc"
    ELSE "other"

\* A variant of the chain that tests the electrical type before the name
\* patterns.
CategoryTypeFirst(pin) ==
    IF pin.electrical_type = "input" THEN "input"
    ELSE IF pin.electrical_type = "output" THEN "output"
    ELSE IF pin.electrical_type = "bidirectional" THEN "bidir"
    ELSE IF pin.electrical_type = "no_connect" THEN "nc"
    ELSE IF is_ground(pin) THEN "ground"
    ELSE IF is_supply(pin) THEN "power"
    ELSE "other"

\* The if / elif chain of _layout_single_unit.
Category(pin) ==
    IF is_ground(pin) THEN "ground"
    ELSE IF is_supply(pin) THEN "power"
    ELSE IF pin.electrical_type = "input" THEN "input"
    ELSE IF pin.electrical_type = "output" THEN "output"
    ELSE IF pin.electrical_type = "bidirectional" THEN "bidir"
    ELSE IF pin.electrical_type = "no_connect" THEN "nc"
    ELSE "other"

Categories == {"power", "ground", "input", "output", "bidir", "nc", "other"}

\* The `for pin in pins` loop of _layout_single_unit: each pin is appended
\* to the list of its category.
RECURSIVE GroupPins(_, _)
GroupPins(pins, groups) ==
    IF pins = <<>> THEN groups
    ELSE GroupPins(Tail(pins),
                   [groups EXCEPT ![Category(Head(pins))] = Append(@, Head(pins))])

\* A category list left in the order the pins were appended.
UnsortedPinList(pin_list) == pin_list

\* pin_list.sort(key=lambda p: (p.name, p.number))
SortByNameNumber(pin_list) ==
    SortedBy(pin_list, [p \in Range(pin_list) |-> <<p.name, p.number>>])

\* A split that gives the left side the larger half.
SplitPointCeil(n) == (n + 1) \div 2

\* len(bidir_pins) // 2
SplitPoint(n) == n \div 2

\* SymbolGenerator._layout_single_unit: the layout it appends.
layout_single_unit(pins, unit, unit_name) ==
    LET groups      == GroupPins(pins, [c \in Categories |-> <<>>])
        power_pins  == SortByNameNumber(groups["power"])
        ground_pins == SortByNameNumber(groups["ground"])
        input_pins  == SortByNameNumber(groups["input"])
        output_pins == SortByNameNumber(groups["output"])
        bidir_pins  == SortByNameNumber(groups["bidir"])
        nc_pins     == SortByNameNumber(groups["nc"])
        other_pins  == SortByNameNumber(groups["other"])
        left_bidir  == SubSeq(bidir_pins, 1, SplitPoint(Len(bidir_pins)))
        right_bidir == SubSeq(bidir_pins, SplitPoint(Len(bidir_pins)) + 1,
                              Len(bidir_pins))
        left_side   == input_pins \o left_bidir \o other_pins
        right_side  == output_pins \o right_bidir
        top_side    == power_pins
        bottom_side == ground_pins \o nc_pins
    IN  SymbolLayout(unit, unit_name, left_side, right_side, top_side, bottom_side,
                     Max(Max(Len(left_side), Len(right_side)), 1),
                     Max(Max(Len(top_side), Len(bottom_side)), 1),
                     Len(power_pins) + Len(ground_pins) = Len(pins) /\ Len(pins) > 0)

\* re.match(r"(.+?)([PN]|[AB])$", name): a suffix letter after a non-empty base.
IsDiffName(name) == Len(name) >= 2 /\ name[Len(name)] \in {"P", "N", "A", "B"}

DiffBase(name) == SubSeq(name, 1, Len(name) - 1)

\* The strings of a set, in ascending order (sorted(pairs.keys())).
RECURSIVE SortedStrings(_)
SortedStrings(S) ==
    IF S = {} THEN <<>>
    ELSE LET m == CHOOSE x \in S : \A y \in S : x = y \/ StrLess(x, y)
         IN  <<m>> \o SortedStrings(S \ {m})

\* SymbolGenerator._sort_with_diff_pairs
sort_with_diff_pairs(pins) ==
    LET InPair(p) == IsDiffName(str_upper(p.name))
        Single(p) == ~IsDiffName(str_upper(p.name))
        paired    == SelectSeq(pins, InPair)
        singles   == SelectSeq(pins, Single)
        bases     == SortedStrings({DiffBase(str_upper(p.name)) : p \in Range(paired)})
        PairKey(p) == << IF EndsWith(str_upper(p.name), "P")
                            \/ EndsWith(str_upper(p.name), "A")
                         THEN <<"0">> ELSE <<"1">>,
                         p.name >>
        PairPins(base) ==
            LET OfBase(p) == DiffBase(str_upper(p.name)) = base
                pp == SelectSeq(paired, OfBase)
            IN  SortedBy(pp, [p \in Range(pp) |-> PairKey(p)])
    IN  Flatten([i \in 1..Len(bases) |-> PairPins(bases[i])])
        \o SortedBy(singles, [p \in Range(singles) |-> <<p.name>>])

\* The left / right distribution loop of _layout_unit_pins, from the state
\* <<left_signals, right_signals>> reached so far.
RECURSIVE DistributeSignals(_, _, _)
DistributeSignals(signal_pins, left_signals, right_signals) ==
    IF signal_pins = <<>> THEN <<left_signals, right_signals>>
    ELSE LET pin  == Head(signal_pins)
             name == str_upper(pin.name)
             toLeft ==
                IF EndsWith(name, "P") \/ EndsWith(name, "A")
                   \/ pin.electrical_type = "input" THEN TRUE
                ELSE IF EndsWith(name, "N") \/ EndsWith(name, "B")
                        \/ pin.electrical_type = "output" THEN FALSE
                ELSE Len(left_signals) <= Len(right_signals)
         IN  IF toLeft
             THEN DistributeSignals(Tail(signal_pins), Append(left_signals, pin),
                                    right_signals)
             ELSE DistributeSignals(Tail(signal_pins), left_signals,
                                    Append(right_signals, pin))

\* SymbolGenerator._layout_unit_pins: the layout it appends.
layout_unit_pins(pins, unit, unit_name) ==
    LET IsSignal(p) == ~(is_supply(p) \/ is_ground(p) \/ is_nc(p))
        supply      == SelectSeq(pins, is_supply)
        ground      == SelectSeq(pins, is_ground)
        power_pins  == SortedBy(supply, [p \in Range(supply) |-> <<p.name>>])
        ground_pins == SortedBy(ground, [p \in Range(ground) |-> <<p.name>>])
        nc_pins     == SelectSeq(pins, is_nc)
        signal_pins == sort_with_diff_pairs(SelectSeq(pins, IsSignal))
        sides       == DistributeSignals(signal_pins, <<>>, <<>>)
    IN  SymbolLayout(unit, unit_name, sides[1], sides[2], power_pins,
                     ground_pins \o nc_pins,
                     Max(Max(Len(sides[1]), Len(sides[2])), 1),
                     Max(Max(Len(power_pins), Len(ground_pins) + Len(nc_pins)), 1),
                     Len(signal_pins) = 0 /\ (Len(power_pins) > 0 \/ Len(ground_pins) > 0))

\* get_fpga_unit_names(): the names of the units the model uses.
UnitName(unit_num) ==
    CASE unit_num = 1 -> "Power"
      [] unit_num = 2 -> "Config"
      [] unit_num = 3 -> "JTAG"
      [] OTHER        -> "Unit " \o ToString(unit_num)

\* The integers of a set, descending.
RECURSIVE SortedIntsDescending(_)
SortedIntsDescending(S) ==
    IF S = {} THEN <<>> ELSE <<SetMax(S)>> \o SortedIntsDescending(S \ {SetMax(S)})

\* The integers of a set, ascending (sorted(units)).
RECURSIVE SortedInts(_)
SortedInts(S) ==
    IF S = {} THEN <<>> ELSE <<SetMin(S)>> \o SortedInts(S \ {SetMin(S)})

\* SymbolGenerator._layout_multi_unit: the layouts it appends.
layout_multi_unit(comp, units) ==
    LET sorted_units == SortedInts(units)
    IN  [i \in 1..Len(sorted_units) |->
            LET InUnit(p) == p.unit = sorted_units[i]
            IN  layout_unit_pins(SelectSeq(comp.pins, InUnit), sorted_units[i],
                                 UnitName(sorted_units[i]))]

\* SymbolGenerator.layout_pins: the layouts it appends to self.layouts.
layout_pins(comp) ==
    LET units == {comp.pins[i].unit : i \in 1..Len(comp.pins)}
    IN  IF Cardinality(units) <= 1
        THEN << layout_single_unit(comp.pins, 1, "") >>
        ELSE layout_multi_unit(comp, units)

(***************************************************************************)
(* symbol/generator.py: serialization.  The document is modelled as the    *)
(* sequence of its elements in the order generate() emits them; a unit     *)
(* block holds its rectangle, its label and its pin elements.              *)
(***************************************************************************)
\* f"{v:.2f}" of a length in mm: the value in hundredths of a millimetre.
Fmt2(v) == Round2(v) \div 10

\* pin.name.replace('"', '\\"')
RECURSIVE escape_quotes(_)
escape_quotes(s) ==
    IF s = <<>> THEN <<>>
    ELSE IF Head(s) = "\"" THEN <<"\\", "\"">> \o escape_quotes(Tail(s))
    ELSE <<Head(s)>> \o escape_quotes(Tail(s))

\* SymbolGenerator._generate_pin
generate_pin(sym_pin) ==
    [kind |-> "pin", etype |-> sym_pin.pin.electrical_type,
     gstyle |-> sym_pin.pin.graphic_style,
     at |-> <<Fmt2(sym_pin.x), Fmt2(sym_pin.y), sym_pin.orientation>>,
     length |-> PIN_LENGTH, name |-> escape_quotes(sym_pin.pin.name),
     number |-> sym_pin.pin.number]

\* The body rectangle both body generators draw.
Rectangle(layout) ==
    [start |-> <<Fmt2(-(layout.width \div 2)), Fmt2(layout.height \div 2)>>,
     end   |-> <<Fmt2(layout.width \div 2), Fmt2(-(layout.height \div 2))>>,
     stroke |-> LINE_WIDTH, fill |-> "background"]

\* SymbolGenerator._generate_properties
generate_properties(comp, lays) ==
    LET layout == IF lays # <<>> THEN lays[1] ELSE DefaultLayout
        ref_x  == -(layout.width \div 2)
        ref_y  == layout.height \div 2 + 1270
        val_y  == ref_y - 2540
        footprint == IF ~IsNone(comp.primary_package)
                     THEN "KiForge:" \o Val(comp.primary_package) ELSE ""
        datasheet == IF IsNone(comp.datasheet_url) THEN "" ELSE Val(comp.datasheet_url)
    IN  << [kind |-> "property", key |-> "Reference", value |-> comp.reference_prefix,
            at |-> <<Fmt2(ref_x), Fmt2(ref_y), 0>>, hide |-> FALSE],
           [kind |-> "property", key |-> "Value", value |-> comp.name,
            at |-> <<Fmt2(ref_x), Fmt2(val_y), 0>>, hide |-> FALSE],
           [kind |-> "property", key |-> "Footprint", value |-> footprint,
            at |-> <<0, 0, 0>>, hide |-> TRUE],
           [kind |-> "property", key |-> "Datasheet", value |-> datasheet,
            at |-> <<0, 0, 0>>, hide |-> TRUE],
           [kind |-> "property", key |-> "Description", value |-> comp.description,
            at |-> <<0, 0, 0>>, hide |-> TRUE] >>

\* SymbolGenerator._generate_body_graphics: the shared body block.
generate_body_graphics(comp, lays) ==
    LET layout == IF lays # <<>> THEN lays[1] ELSE DefaultLayout
    IN  [kind |-> "unit_symbol", name |-> comp.name \o "_0_1",
         rectangle |-> Some(Rectangle(layout)), label |-> None, pins |-> <<>>]

\* SymbolGenerator._generate_unit_body: the body block of one unit.
generate_unit_body(comp, layout) ==
    [kind |-> "unit_symbol",
     name |-> comp.name \o "_" \o ToString(layout.unit) \o "_0",
     rectangle |-> Some(Rectangle(layout)),
     label |-> IF layout.name # ""
               THEN Some([text |-> layout.name,
                          at |-> <<0, Fmt2(layout.height \div 2 - 1270), 0>>])
               ELSE None,
     pins |-> <<>>]

\* SymbolGenerator._generate_unit_pins: the pin block of one unit.
generate_unit_pins(comp, layout) ==
    LET all_pins == layout.left_pins \o layout.right_pins \o layout.top_pins
                    \o layout.bottom_pins
    IN  [kind |-> "unit_symbol",
         name |-> comp.name \o "_" \o ToString(layout.unit) \o "_1",
         rectangle |-> None, label |-> None,
         pins |-> [i \in 1..Len(all_pins) |-> generate_pin(all_pins[i])]]

\* SymbolGenerator._generate_symbol
generate_symbol(comp, lays) ==
    << [kind |-> "symbol", name |-> comp.name] >>
    \o (IF Len(lays) > 1
        THEN << [kind |-> "pin_numbers", hide |-> TRUE],
                [kind |-> "pin_names", offset |-> 1016] >>
        ELSE <<>>)
    \o << [kind |-> "exclude_from_sim", value |-> "no"],
          [kind |-> "in_bom", value |-> "yes"],
          [kind |-> "on_board", value |-> "yes"] >>
    \o generate_properties(comp, lays)
    \o (IF Len(lays) > 1
        THEN Flatten([i \in 1..Len(lays) |->
                        << generate_unit_body(comp, lays[i]),
                           generate_unit_pins(comp, lays[i]) >>])
        ELSE << generate_body_graphics(comp, lays) >>
             \o [i \in 1..Len(lays) |-> generate_unit_pins(comp, lays[i])])
    \o << [kind |-> "close_symbol"] >>

\* The lines generate() joins once the layout is made: the library header
\* with the date, the symbol definition, the closing parenthesis.
symbol_lib_text(comp, lays, day) ==
    << [kind |-> "kicad_symbol_lib", version |-> KICAD_VERSION,
         generator |-> "kiforge", generator_version |-> day] >>
    \o generate_symbol(comp, lays)
    \o << [kind |-> "close"] >>

\* SymbolGenerator.generate on an instance whose layouts are lays0: the
\* layouts when the call ends and the text returned.
symbol_generate(comp, lays0, day) ==
    LET lays == lays0 \o layout_pins(comp)
    IN  [layouts |-> lays, text |-> symbol_lib_text(comp, lays, day)]

(***************************************************************************)
(* Inputs of the symbol engine: validated components.                      *)
(***************************************************************************)
MaxPins == 3    \* pins of a component, and of a list handed to ComponentInfo

ValidPin(number, name, electrical_type, unit) ==
    Pin([number |-> number, name |-> name, electrical_type |-> electrical_type,
         unit |-> unit]).pin

\* Supply, ground, each signal type, two pins of one name (the number "10"
\* sorts before "5"), a differential pair and a supply-and-ground name in
\* a second unit; in the first unit also an input with a supply name, an
\* output whose name matches a ground and a supply pattern, a passive pin
\* and a third bidirectional pin; an input in a third unit.
PinPool ==
    << ValidPin(<<"1">>, <<"V", "C", "C">>, "power_in", 1),
       ValidPin(<<"2">>, <<"G", "N", "D">>, "power_in", 1),
       ValidPin(<<"3">>, <<"C", "L", "K">>, "input", 1),
       ValidPin(<<"4">>, <<"Q">>, "output", 1),
       ValidPin(<<"5">>, <<"I", "O">>, "bidirectional", 1),
       ValidPin(<<"1", "0">>, <<"I", "O">>, "bidirectional", 1),
       ValidPin(<<"6">>, <<"N", "C">>, "no_connect", 1),
       ValidPin(<<"7">>, <<"D", "0", "P">>, "bidirectional", 2),
       ValidPin(<<"8">>, <<"D", "0", "N">>, "bidirectional", 2),
       ValidPin(<<"9">>, <<"V", "D", "D", "G", "N", "D">>, "passive", 2),
       ValidPin(<<"1", "1">>, <<"V", "I", "N">>, "input", 1),
       ValidPin(<<"1", "2">>, <<"V", "S", "S", "V", "C", "C">>, "output", 1),
       ValidPin(<<"1", "3">>, <<"E", "N">>, "passive", 1),
       ValidPin(<<"1", "4">>, <<"A", "D">>, "bidirectional", 1),
       ValidPin(<<"1", "5">>, <<"T", "C", "K">>, "input", 3) >>

\* The pins of the pool at the indices of I, in pool order.
RECURSIVE Pick(_)
Pick(I) ==
    IF I = {} THEN <<>> ELSE <<PinPool[SetMin(I)]>> \o Pick(I \ {SetMin(I)})

Reversed(s) == [i \in 1..Len(s) |-> s[Len(s) + 1 - i]]

\* The pin lists handed to ComponentInfo: at most MaxPins pins of the pool,
\* in pool order or in reverse pool order.
PinLists ==
    LET sets == {I \in SUBSET (1..Len(PinPool)) : Cardinality(I) <= MaxPins}
    IN  {Pick(I) : I \in sets} \cup {Reversed(Pick(I)) : I \in sets}

\* The components whose construction succeeds.
ComponentSpace ==
    {ComponentInfo("U", pins).component :
        pins \in {s \in PinLists : ~ComponentInfo("U", s).raised}}

(***************************************************************************)
(* The symbol engine: one instance, constructed with a component, on which *)
(* the caller calls layout_pins() and generate().                          *)
(***************************************************************************)
\* SymbolGenerator.__init__
InitSymbol ==
    /\ component \in ComponentSpace
    /\ layouts = <<>>
    /\ symOut = NoCall
    /\ symLog = <<>>
    /\ today = 0 /\ uuidCtr = 0
    /\ IdleFootprint /\ IdleComponent /\ IdleCreate /\ IdleEngines /\ IdleSorting

\* A layout_pins() that sorts the component's own pin list in place
\* before grouping it.
LayoutPinsSortingInPlace ==
    /\ Len(symLog) < MaxCalls
    /\ component' = [component EXCEPT !.pins = SortByNameNumber(@)]
    /\ layouts' = layouts \o layout_pins(component')
    /\ symOut' = [op |-> "layout_pins", raised |-> FALSE, text |-> <<>>]
    /\ symLog' = Append(symLog, "layout_pins")
    /\ UNCHANGED <<fpVars, envVars, compVars, createOut, engines, sigVars>>

\* generator.layout_pins()
LayoutPins ==
    /\ Len(symLog) < MaxCalls
    /\ layouts' = layouts \o layout_pins(component)
    /\ symOut' = [op |-> "layout_pins", raised |-> FALSE, text |-> <<>>]
    /\ symLog' = Append(symLog, "layout_pins")
    /\ UNCHANGED <<component, fpVars, envVars, compVars, createOut,
        engines, sigVars>>

\* generator.generate()
GenerateSymbol ==
    /\ Len(symLog) < MaxCalls
    /\ \E r \in {symbol_generate(component, layouts, today)} :
           /\ layouts' = r.layouts
           /\ symOut' = [op |-> "generate", raised |-> FALSE, text |-> r.text]
    /\ symLog' = Append(symLog, "generate")
    /\ UNCHANGED <<component, fpVars, envVars, compVars, createOut,
        engines, sigVars>>

NextSymbol == LayoutPins \/ GenerateSymbol \/ Tick

SpecSymbol == InitSymbol /\ [][NextSymbol]_vars

\* The same engine with the calendar held still: the calls alone, for the
\* properties of the layout, which reads no date.
NextPlacement == LayoutPins \/ GenerateSymbol

SpecPlacement == InitSymbol /\ [][NextPlacement]_vars

\* An engine of either kind, and the calls made on it.
SymbolCall == gen = "none" /\ (LayoutPins \/ GenerateSymbol)

InitEngines == InitFootprint \/ InitSymbol

NextEngines == FootprintCall \/ SymbolCall

SpecEngines == InitEngines /\ [][NextEngines]_vars

(***************************************************************************)
(* _sort_with_diff_pairs on its own: the method is handed the signal pins  *)
(* of one unit, in the order the component lists them.                     *)
(***************************************************************************)
MaxSignals == 3    \* pins of a list handed to _sort_with_diff_pairs

\* Signal pins (no supply or ground name, not typed not-connected) of one
\* unit: two P/N pairs, an A and a B member of the base of the first pair,
\* a second pin named like a positive member, and two pins without suffix.
SignalPool ==
    { ValidPin(<<"1">>, <<"D", "0", "P">>, "bidirectional", 4),
      ValidPin(<<"2">>, <<"D", "0", "N">>, "bidirectional", 4),
      ValidPin(<<"3">>, <<"D", "0", "B">>, "output", 4),
      ValidPin(<<"4">>, <<"D", "0", "A">>, "input", 4),
      ValidPin(<<"5">>, <<"D", "1", "N">>, "bidirectional", 4),
      ValidPin(<<"6">>, <<"D", "1", "P">>, "bidirectional", 4),
      ValidPin(<<"7">>, <<"D", "0", "P">>, "passive", 4),
      ValidPin(<<"8">>, <<"C", "L", "K">>, "input", 4),
      ValidPin(<<"9">>, <<"R", "X">>, "passive", 4) }

\* The lists of at most MaxSignals different pins of the pool, in any order.
SignalLists ==
    UNION {{s \in [1..n -> SignalPool] : \A i, j \in 1..n : i # j => s[i] # s[j]} :
              n \in 0..MaxSignals}

InitSorting ==
    /\ sigPins \in SignalLists
    /\ sigOut = NotSorting
    /\ today = 0 /\ uuidCtr = 0
    /\ IdleFootprint /\ IdleSymbol /\ IdleComponent /\ IdleCreate /\ IdleEngines

\* generator._sort_with_diff_pairs(pins)
SortWithDiffPairs ==
    /\ ~sigOut.returned
    /\ sigOut' = [returned |-> TRUE, pins |-> sort_with_diff_pairs(sigPins)]
    /\ UNCHANGED <<sigPins, fpVars, envVars, symVars, compVars, createOut, engines>>

NextSorting == SortWithDiffPairs

SpecSorting == InitSorting /\ [][NextSorting]_vars

(***************************************************************************)
(* Several engine instances at once.  Each is constructed by __init__ with *)
(* its own inputs and its own new, empty lists, and one generate() call is *)
(* made on each.  The calls advance one statement of generate() at a time, *)
(* in any order; the uuid source is all they have in common besides the    *)
(* clock, which stands still here.                                         *)
(***************************************************************************)
MaxEngines == 2    \* instances with a generate() call each

\* What the callers construct their instances with: both footprint classes,
\* with and without a thermal pad, a package the quad-lead engine rejects,
\* and a single-unit and a multi-unit component.
EngineInputs ==
    << [cls |-> "QFP", component |-> <<>>,
       params |-> FootprintParams("LQFP", 8, <<None, None>>, BaseProfile)],
      [cls |-> "QFN", component |-> <<>>,
       params |-> FootprintParams("QFN", 8,
                      <<Some(ThermalPad(3000, 3000, 1, 1, "EP")), None>>,
                      RectProfile)],
      [cls |-> "QFN", component |-> <<>>,
       params |-> FootprintParams("DFN", 4, <<None, Some(OverrideThermal)>>,
                                  BaseProfile)],
      [cls |-> "QFP", component |-> <<>>,
       params |-> FootprintParams("DFN", 4, <<None, None>>, BaseProfile)],
      [cls |-> "SYM", params |-> <<>>,
       component |-> ComponentInfo("U", Pick({1, 2, 3})).component],
      [cls |-> "SYM", params |-> <<>>,
       component |-> ComponentInfo("U", Pick({4, 8, 9})).component] >>

\* FootprintGenerator.__init__ / SymbolGenerator.__init__: the inputs are
\* kept by reference, the lists are new and empty.
NewEngine(inp) ==
    [cls |-> inp.cls, params |-> inp.params, component |-> inp.component,
     geo |-> EmptyGeo, layouts |-> <<>>,
     pc |-> "start", raised |-> FALSE, text |-> <<>>, day |-> 0,
     overlapped |-> FALSE]

\* An attribute list shared by all instances of the class.
PadListOfClass(i) == 1

\* The instance whose list object self.pads of instance i is: __init__
\* binds a new list to each instance.
PadListOwner(i) == i

PadsSeen(i) == engines[PadListOwner(i)].geo.pads

InCall(e) == e.pc \notin {"start", "done"}

\* Instance i has executed a statement and is now as e2; it notes whether
\* another call was in progress at that moment.
Stepped(i, e2) ==
    [engines EXCEPT
        ![i] = [e2 EXCEPT !.overlapped =
                   @ \/ \E j \in DOMAIN engines \ {i} : InCall(engines[j])]]

\* As Stepped, with the statement leaving ps in the list self.pads names.
SteppedPads(i, e2, ps) ==
    [Stepped(i, e2) EXCEPT ![PadListOwner(i)].geo.pads = ps]

\* Which instance is called first, second, ... makes no difference to the
\* interleavings, so the instances are listed in the order of their inputs.
EngineChoices ==
    {f \in [1..MaxEngines -> 1..Len(EngineInputs)] :
        \A i \in 1..(MaxEngines - 1) : f[i] <= f[i + 1]}

InitConcurrent ==
    /\ engines \in {[i \in 1..MaxEngines |-> NewEngine(EngineInputs[f[i]])] :
                       f \in EngineChoices}
    /\ today = 0 /\ uuidCtr = 0
    /\ IdleFootprint /\ IdleSymbol /\ IdleComponent /\ IdleCreate /\ IdleSorting

EnvSame == UNCHANGED <<fpVars, envVars, symVars, compVars, createOut, sigVars>>

\* self.pads.clear() ... self.texts.clear()
StepClear ==
    \E i \in DOMAIN engines :
        LET e == engines[i]
        IN  /\ e.cls # "SYM" /\ e.pc = "start"
            /\ engines' = SteppedPads(i, [e EXCEPT !.geo = EmptyGeo,
                                                   !.pc = "calculate_pads"],
                                      <<>>)
            /\ EnvSame

\* self.calculate_pads()
StepCalculatePads ==
    \E i \in DOMAIN engines :
        LET e  == engines[i]
            cp == calculate_pads(e.cls, e.params)
        IN  /\ e.cls # "SYM" /\ e.pc = "calculate_pads"
            /\ engines' =
                 IF cp.raised
                 THEN Stepped(i, [e EXCEPT !.pc = "done", !.raised = TRUE])
                 ELSE SteppedPads(i, [e EXCEPT !.pc = "calculate_silkscreen"],
                                  PadsSeen(i) \o cp.pads)
            /\ EnvSame

\* self.calculate_silkscreen()
StepCalculateSilkscreen ==
    \E i \in DOMAIN engines :
        LET e  == engines[i]
            ss == calculate_silkscreen(e.cls, e.params)
        IN  /\ e.cls # "SYM" /\ e.pc = "calculate_silkscreen"
            /\ engines' = Stepped(i, [e EXCEPT !.geo.lines = @ \o ss.lines,
                                               !.geo.circles = @ \o ss.circles,
                                               !.pc = "calculate_courtyard"])
            /\ EnvSame

\* self.calculate_courtyard()
StepCalculateCourtyard ==
    \E i \in DOMAIN engines :
        LET e == engines[i]
        IN  /\ e.cls # "SYM" /\ e.pc = "calculate_courtyard"
            /\ engines' = Stepped(i,
                   [e EXCEPT !.geo.lines =
                                 @ \o calculate_courtyard(PadsSeen(i), e.params),
                             !.pc = "calculate_fab_layer"])
            /\ EnvSame

\* self.calculate_fab_layer()
StepCalculateFabLayer ==
    \E i \in DOMAIN engines :
        LET e == engines[i]
        IN  /\ e.cls # "SYM" /\ e.pc = "calculate_fab_layer"
            /\ engines' = Stepped(i,
                   [e EXCEPT !.geo.lines = @ \o calculate_fab_layer(e.params),
                             !.pc = "add_reference_and_value"])
            /\ EnvSame

\* self.add_reference_and_value()
StepAddReferenceAndValue ==
    \E i \in DOMAIN engines :
        LET e == engines[i]
        IN  /\ e.cls # "SYM" /\ e.pc = "add_reference_and_value"
            /\ engines' = Stepped(i,
                   [e EXCEPT !.geo.texts = @ \o add_reference_and_value(e.params),
                             !.pc = "add_thermal_pad"])
            /\ EnvSame

\* if self.params.has_thermal_pad and self.params.thermal_pad:
\*     self.add_thermal_pad(self.params.thermal_pad)
StepAddThermalPad ==
    \E i \in DOMAIN engines :
        LET e == engines[i]
            p == e.params
        IN  /\ e.cls # "SYM" /\ e.pc = "add_thermal_pad"
            /\ engines' =
                 IF params_has_thermal_pad(p) /\ ~IsNone(params_thermal_pad(p))
                 THEN SteppedPads(i, [e EXCEPT !.pc = "build_sexpr"],
                          PadsSeen(i) \o add_thermal_pad(Val(params_thermal_pad(p))))
                 ELSE Stepped(i, [e EXCEPT !.pc = "build_sexpr"])
            /\ EnvSame

\* return self._build_sexpr()
StepBuildSexpr ==
    \E i \in DOMAIN engines :
        LET e == engines[i]
            g == [e.geo EXCEPT !.pads = PadsSeen(i)]
        IN  /\ e.cls # "SYM" /\ e.pc = "build_sexpr"
            /\ engines' = Stepped(i,
                   [e EXCEPT !.text = build_sexpr(g, e.params, today, uuidCtr),
                             !.day = today,
                             !.pc = "done"])
            /\ uuidCtr' = uuidCtr + UuidsDrawn(g)
            /\ UNCHANGED <<fpVars, today, symVars, compVars, createOut, sigVars>>

\* SymbolGenerator.generate: self.layout_pins()
StepLayoutPins ==
    \E i \in DOMAIN engines :
        LET e == engines[i]
        IN  /\ e.cls = "SYM" /\ e.pc = "start"
            /\ engines' = Stepped(i,
                   [e EXCEPT !.layouts = @ \o layout_pins(e.component),
                             !.pc = "build_lines"])
            /\ EnvSame

\* SymbolGenerator.generate: the header, _generate_symbol() and the join
StepBuildSymbol ==
    \E i \in DOMAIN engines :
        LET e == engines[i]
        IN  /\ e.cls = "SYM" /\ e.pc = "build_lines"
            /\ engines' = Stepped(i,
                   [e EXCEPT !.text = symbol_lib_text(e.component, e.layouts, today),
                             !.day = today,
                             !.pc = "done"])
            /\ EnvSame

NextConcurrent ==
    \/ StepClear \/ StepCalculatePads \/ StepCalculateSilkscreen
    \/ StepCalculateCourtyard \/ StepCalculateFabLayer
    \/ StepAddReferenceAndValue \/ StepAddThermalPad \/ StepBuildSexpr
    \/ StepLayoutPins \/ StepBuildSymbol

SpecConcurrent == InitConcurrent /\ [][NextConcurrent]_vars

(***************************************************************************)
(* Construction of a component from raw pin data: the caller builds each   *)
(* Pin, then hands the list to ComponentInfo.                              *)
(***************************************************************************)
RawNumbers == {<<"1">>, <<" ", "1", " ">>, <<"1", "\t">>, <<"2">>, <<" ">>}
RawNames   == {<<"A">>, <<"B", " ">>}

RawPins ==
    {[number |-> n, name |-> m, electrical_type |-> "unspecified", unit |-> 1] :
        n \in RawNumbers, m \in RawNames}

RECURSIVE RawLists(_)
RawLists(n) ==
    IF n = 0 THEN {<<>>}
    ELSE RawLists(n - 1)
         \cup {Append(s, p) : s \in {t \in RawLists(n - 1) : Len(t) = n - 1},
                              p \in RawPins}

InitComponent ==
    /\ rawPins \in RawLists(MaxPins)
    /\ compOut = NoCall
    /\ today = 0 /\ uuidCtr = 0
    /\ IdleFootprint /\ IdleSymbol /\ IdleCreate /\ IdleEngines /\ IdleSorting

\* pins = [Pin(number=..., name=...), ...]
ConstructPins ==
    /\ compOut.op = "none"
    /\ \E built \in {[i \in 1..Len(rawPins) |-> Pin(rawPins[i])]} :
          compOut' = IF \E i \in 1..Len(built) : built[i].raised
                     THEN [op |-> "Pin", raised |-> TRUE, pins |-> <<>>]
                     ELSE [op |-> "Pin", raised |-> FALSE,
                           pins |-> [i \in 1..Len(built) |-> built[i].pin]]
    /\ UNCHANGED <<rawPins, fpVars, envVars, symVars, createOut,
        engines, sigVars>>

\* ComponentInfo(name="U", pins=pins)
ConstructComponent ==
    /\ compOut.op = "Pin" /\ ~compOut.raised
    /\ \E r \in {ComponentInfo("U", compOut.pins)} :
          compOut' = [op |-> "ComponentInfo", raised |-> r.raised,
                      pins |-> IF r.raised THEN <<>> ELSE r.component.pins]
    /\ UNCHANGED <<rawPins, fpVars, envVars, symVars, createOut,
        engines, sigVars>>

NextComponent == ConstructPins \/ ConstructComponent

SpecComponent == InitComponent /\ [][NextComponent]_vars

(***************************************************************************)
(* Properties of the footprint engine.                                     *)
(***************************************************************************)
\* The text with every per-element identifier and the date stamp blanked.
StripIds(text) ==
    [i \in 1..Len(text) |->
        IF "uuid" \in DOMAIN text[i] THEN [text[i] EXCEPT !.uuid = 0]
        ELSE IF text[i].kind = "footprint"
             THEN [text[i] EXCEPT !.generator_version = 0]
             ELSE text[i]]

\* What one generate() on a fresh instance with the same parameters gives.
FreshGenerate == generate(gen, EmptyGeo, params, 0, 0)

GenerateReturned == fpOut.op = "generate" /\ ~fpOut.raised

\* C3: after any number k >= 1 of generate() calls on a QFP or QFN engine
\* instance (with any direct calculate_*() calls in between), the pad, line,
\* circle, arc and text lists hold exactly the elements a single generate()
\* on a fresh instance produces, and the returned text is the same apart
\* from the per-element identifiers and the date stamp.
C3_GenerateIdempotent ==
    GenerateReturned =>
        /\ CurrentGeo = FreshGenerate.geo
        /\ StripIds(fpOut.text) = StripIds(FreshGenerate.text)

\* C3 witness: a second generate() returned, on another day, with pads.
C3_Witness ==
    /\ fpLog = <<"generate", "generate">>
    /\ GenerateReturned
    /\ today = 1
    /\ Len(pads) > 4
    /\ fpOut.text # FreshGenerate.text

\* calculate_pads() has just run, alone, on a fresh instance.
FreshPads == fpLog = <<"calculate_pads">> /\ ~fpOut.raised

\* The indices of the pads of quarter q (1..4) of a list of 4*n pads.
Quarter(q, n) == ((q - 1) * n + 1)..(q * n)

C5_SidePositions ==
    LET n     == effective_pins(params.package) \div 4
        pitch == params.package.pitch
        half  == ((n - 1) * pitch) \div 2
    IN  (/\ FreshPads
         /\ \/ gen = "QFP" /\ is_quad(params.package)
            \/ gen = "QFN" /\ ~is_dual(params.package))
        => /\ Len(pads) = 4 * n
           /\ \A i \in 0..(n - 1) :
                /\ pads[i + 1].y = -half + i * pitch
                /\ pads[n + i + 1].x = -half + i * pitch
                /\ pads[2 * n + i + 1].y = half - i * pitch
                /\ pads[3 * n + i + 1].x = half - i * pitch

\* C5 witness: the no-lead engine has placed two pads per side.
C5_Witness ==
    /\ FreshPads /\ gen = "QFN" /\ params.package.package_type = "QFN"
    /\ Len(pads) = 8
    /\ pads[5].y - pads[6].y = params.package.pitch

PadElems(text) == {i \in 1..Len(text) : text[i].kind = "pad"}

\* C6: for any footprint whose effective thermal pad has via counts
\* countX, countY >= 0, the text returned by generate() contains exactly one
\* pad element carrying the thermal designator as an SMD rectangle and
\* exactly countX*countY heatsink-tagged pad elements, all through-hole.
C6_ThermalPadAndVias ==
    (GenerateReturned /\ params_has_thermal_pad(params)) =>
        LET t   == Val(params_thermal_pad(params))
            txt == fpOut.text
        IN  /\ Cardinality({i \in PadElems(txt) :
                    /\ txt[i].number = t.pin_number
                    /\ txt[i].pad_type = "smd"
                    /\ txt[i].shape = "rect"}) = 1
            /\ Cardinality({i \in PadElems(txt) : txt[i].heatsink})
                 = t.via_count_x * t.via_count_y
            /\ \A i \in PadElems(txt) :
                 txt[i].heatsink =>
                    txt[i].pad_type = "thru_hole" /\ txt[i].number = t.pin_number

\* C6 witness: a 1 x 2 via grid has been serialized.
C6_Witness ==
    /\ GenerateReturned /\ params_has_thermal_pad(params)
    /\ Val(params_thermal_pad(params)).via_count_x = 1
    /\ Val(params_thermal_pad(params)).via_count_y = 2
    /\ Cardinality({i \in PadElems(fpOut.text) : fpOut.text[i].heatsink}) = 2

\* C8 (as claimed): a quad-family package whose pin count, less the thermal
\* pad slot, is not divisible by 4 never yields pads from the quad-lead
\* engine: every calculate_pads() or generate() on it raises.
C8_NonDivisibleNeverYieldsPads ==
    (/\ gen = "QFP" /\ is_quad(params.package)
     /\ effective_pins(params.package) % 4 # 0
     /\ fpOut.op \in {"generate", "calculate_pads"})
    => fpOut.raised /\ pads = <<>>

\* C9: QFPFootprintGenerator.generate() on a package whose family defines
\* no per-side pin count raises, returns no text, and leaves the pad, line,
\* circle, arc and text lists all empty.
C9_NoPerSideCountRaises ==
    (/\ gen = "QFP" /\ IsNone(pins_per_side(params.package))
     /\ fpOut.op = "generate")
    => /\ fpOut.raised
       /\ fpOut.text = <<>>
       /\ CurrentGeo = EmptyGeo

\* C9 witness: the raising generate() followed a calculate_silkscreen() that
\* had left lines and a circle on the instance.
C9_Witness ==
    /\ gen = "QFP" /\ params.package.package_type = "BGA"
    /\ fpLog = <<"calculate_silkscreen", "generate">>
    /\ fpOut.raised
    /\ lines = <<>> /\ circles = <<>>

(***************************************************************************)
(* Properties of the convenience constructors.                             *)
(***************************************************************************)
\* The call asked for a pin count the variant's family does not allow.
BadPinCount ==
    \/ /\ createOut.op = "create_qfp_footprint"
       /\ createOut.pins % 4 # 0
    \/ /\ createOut.op = "create_qfn_footprint"
       /\ IF upper[createOut.variant] = "DFN" THEN createOut.pins % 2 # 0
          ELSE createOut.pins % 4 # 0

\* C7: create_qfp_footprint raises a value error when pins is not divisible
\* by 4, and create_qfn_footprint raises a value error when pins is not
\* divisible by 4 (QFN, VQFN, WQFN and every other non-DFN variant) or not
\* divisible by 2 (DFN); the error is raised before any package, parameter
\* object or geometry is constructed, and no text is returned.
C7_CreateRejectsBadPinCount ==
    BadPinCount =>
        /\ createOut.raised
        /\ createOut.error = "ValueError"
        /\ createOut.constructed = <<>>
        /\ createOut.text = <<>>
        /\ uuidCtr = 0

\* C7 witness: a VQFN call with 6 pins (even, not a multiple of 4) raised.
C7_Witness ==
    /\ createOut.op = "create_qfn_footprint"
    /\ createOut.variant = "VQFN" /\ createOut.pins = 6
    /\ createOut.raised /\ createOut.constructed = <<>>

(***************************************************************************)
(* Properties of component construction.                                   *)
(***************************************************************************)
\* Two pins of the supplied list have the same number after trimming.
TrimmedDuplicate ==
    \E i, j \in 1..Len(rawPins) :
        i # j /\ strip(rawPins[i].number) = strip(rawPins[j].number)

\* C10: ComponentInfo construction fails whenever two pins of the supplied
\* list have the same number after whitespace trimming, and succeeds with
\* the pins in their given order when all trimmed numbers are distinct.
C10_DuplicateNumbersRejected ==
    compOut.op = "ComponentInfo" =>
        /\ compOut.raised <=> TrimmedDuplicate
        /\ ~compOut.raised =>
              /\ Len(compOut.pins) = Len(rawPins)
              /\ \A i \in 1..Len(rawPins) :
                    /\ compOut.pins[i].number = strip(rawPins[i].number)
                    /\ compOut.pins[i].name = strip(rawPins[i].name)

\* C10 witness: "1" and " 1 " were supplied and the construction failed.
C10_Witness ==
    /\ compOut.op = "ComponentInfo" /\ compOut.raised
    /\ Len(rawPins) = 2
    /\ rawPins[1].number = <<"1">>
    /\ rawPins[2].number = <<" ", "1", " ">>

(***************************************************************************)
(* Properties of the symbol engine.                                        *)
(***************************************************************************)
OnlyCalled(op) == symLog # <<>> /\ \A i \in 1..Len(symLog) : symLog[i] = op

PinUnits == {component.pins[i].unit : i \in 1..Len(component.pins)}

\* C1 (as claimed): after k >= 1 calls of layout_pins() on one generator,
\* `layouts` equals what one call on a fresh generator produces, and the
\* number of layouts is the number of distinct units (1 for a single-unit
\* component), whatever k.
C1_LayoutPinsIdempotent ==
    OnlyCalled("layout_pins") =>
        /\ layouts = layout_pins(component)
        /\ Len(layouts) = Max(Cardinality(PinUnits), 1)

\* The document with the date stamp blanked.
StripDate(text) ==
    [i \in 1..Len(text) |->
        IF text[i].kind = "kicad_symbol_lib"
        THEN [text[i] EXCEPT !.generator_version = 0] ELSE text[i]]

\* The indices of the unit blocks of a document that carry a given name.
Blocks(text, name) ==
    {i \in 1..Len(text) : text[i].kind = "unit_symbol" /\ text[i].name = name}

\* C2 (as claimed): every generate() on one generator for a single-unit
\* component returns a document with exactly one shared body block
\* (<name>_0_1) and exactly one pin block (<name>_1_1) in which every pin
\* number appears once, and the documents differ at most in the date stamp.
C2_GenerateRepeatable ==
    (OnlyCalled("generate") /\ Cardinality(PinUnits) <= 1) =>
        LET txt == symOut.text
            pinBlocks == Blocks(txt, component.name \o "_1_1")
        IN  /\ Cardinality(Blocks(txt, component.name \o "_0_1")) = 1
            /\ Cardinality(pinBlocks) = 1
            /\ \A b \in pinBlocks :
                 \A i \in 1..Len(component.pins) :
                    Cardinality({k \in 1..Len(txt[b].pins) :
                        txt[b].pins[k].number = component.pins[i].number}) = 1
            /\ StripDate(txt) = StripDate(symbol_generate(component, <<>>, 0).text)

(***************************************************************************)
(* Placement of pins on the sides of a single-unit symbol.                 *)
(***************************************************************************)
Sides == {"left_pins", "right_pins", "top_pins", "bottom_pins"}

\* The positions of a pin on one side of a layout.
PlacesOn(lay, side, p) == {i \in 1..Len(lay[side]) : lay[side][i].pin = p}

\* The pin is placed once on that side and on no other side.
OnlyOnSide(lay, side, p) ==
    /\ Cardinality(PlacesOn(lay, side, p)) = 1
    /\ \A s \in Sides \ {side} : PlacesOn(lay, s, p) = {}

\* Some call has laid out the pins of a single-unit component.
SingleUnitLaidOut == symLog # <<>> /\ Cardinality(PinUnits) <= 1

NeitherPattern(p) == ~is_ground(p) /\ ~is_supply(p)

PlainBidir(p) == p.electrical_type = "bidirectional" /\ NeitherPattern(p)

\* C11: in every single-unit layout, ground-pattern pins are on the bottom,
\* supply-pattern pins that match no ground pattern on top, inputs matching
\* neither pattern on the left, outputs matching neither on the right, and
\* the K bidirectional pins matching neither pattern are all on the left or
\* the right side, the two counts summing to K.
C11_SingleUnitSides ==
    SingleUnitLaidOut =>
        \A k \in 1..Len(layouts) :
            LET lay  == layouts[k]
                pins == component.pins
                K    == Cardinality({i \in 1..Len(pins) : PlainBidir(pins[i])})
                BidirOn(side) ==
                    Cardinality({j \in 1..Len(lay[side]) : PlainBidir(lay[side][j].pin)})
            IN  /\ \A i \in 1..Len(pins) :
                     LET p == pins[i]
                     IN  /\ is_ground(p) => OnlyOnSide(lay, "bottom_pins", p)
                         /\ (is_supply(p) /\ ~is_ground(p))
                                => OnlyOnSide(lay, "top_pins", p)
                         /\ (p.electrical_type = "input" /\ NeitherPattern(p))
                                => OnlyOnSide(lay, "left_pins", p)
                         /\ (p.electrical_type = "output" /\ NeitherPattern(p))
                                => OnlyOnSide(lay, "right_pins", p)
                         /\ PlainBidir(p)
                                => \/ OnlyOnSide(lay, "left_pins", p)
                                   \/ OnlyOnSide(lay, "right_pins", p)
                /\ BidirOn("left_pins") + BidirOn("right_pins") = K
                /\ BidirOn("top_pins") + BidirOn("bottom_pins") = 0

\* A single-unit layout with a pin matching both a ground and a supply
\* pattern on the bottom and two plain bidirectional pins, one on each side.
C11_Witness ==
    /\ SingleUnitLaidOut
    /\ \E j \in 1..Len(layouts[1].bottom_pins) :
           is_supply(layouts[1].bottom_pins[j].pin)
    /\ \E j \in 1..Len(layouts[1].left_pins) : PlainBidir(layouts[1].left_pins[j].pin)
    /\ \E j \in 1..Len(layouts[1].right_pins) : PlainBidir(layouts[1].right_pins[j].pin)

\* The sides the first matching placement rule allows for a pin.
FirstRuleSides(p) ==
    IF is_ground(p) THEN {"bottom_pins"}
    ELSE IF is_supply(p) THEN {"top_pins"}
    ELSE IF p.electrical_type = "input" THEN {"left_pins"}
    ELSE IF p.electrical_type = "output" THEN {"right_pins"}
    ELSE IF p.electrical_type = "bidirectional" THEN {"left_pins", "right_pins"}
    ELSE IF p.electrical_type = "no_connect" THEN {"bottom_pins"}
    ELSE {"left_pins"}

\* C20: in every single-unit layout each pin is placed once, on a side the
\* first matching rule allows (ground name -> bottom, supply name -> top,
\* input -> left, output -> right, bidirectional -> left or right,
\* not-connected -> bottom, anything else -> left), and on the bottom side
\* every not-connected pin placed by its type comes after every ground pin.
C20_FirstMatchingRule ==
    SingleUnitLaidOut =>
        \A k \in 1..Len(layouts) :
            LET lay  == layouts[k]
                pins == component.pins
                bot  == lay.bottom_pins
            IN  /\ \A i \in 1..Len(pins) :
                     \E s \in FirstRuleSides(pins[i]) : OnlyOnSide(lay, s, pins[i])
                /\ \A i, j \in 1..Len(bot) :
                     (is_ground(bot[i].pin) /\ ~is_ground(bot[j].pin)) => i < j

\* A single-unit layout with an input-typed supply-named pin on top and, on
\* the bottom, a ground pin followed by a not-connected pin.
C20_Witness ==
    /\ SingleUnitLaidOut
    /\ \E j \in 1..Len(layouts[1].top_pins) :
           layouts[1].top_pins[j].pin.electrical_type = "input"
    /\ \E i, j \in 1..Len(layouts[1].bottom_pins) :
           /\ i < j
           /\ is_ground(layouts[1].bottom_pins[i].pin)
           /\ layouts[1].bottom_pins[j].pin.electrical_type = "no_connect"
(***************************************************************************)
(* Which thermal pad governs.                                              *)
(***************************************************************************)
\* The pad elements of a text that are a thermal pad: SMD, copper and mask
\* without paste.
ThermalElems(text) ==
    {i \in PadElems(text) :
        text[i].pad_type = "smd" /\ text[i].layers = <<"F.Cu", "F.Mask">>}

ViaElems(text) == {i \in PadElems(text) : text[i].heatsink}

\* The text shows exactly the thermal pad t and its via grid.
EmitsThermal(text, t) ==
    /\ Cardinality(ThermalElems(text)) = 1
    /\ \A i \in ThermalElems(text) :
         /\ text[i].number = t.pin_number
         /\ text[i].size = <<Fmt4(t.width), Fmt4(t.height)>>
    /\ Cardinality(ViaElems(text)) = t.via_count_x * t.via_count_y
    /\ \A i \in ViaElems(text) : text[i].number = t.pin_number

\* C14: generate() emits a thermal pad and its via grid if and only if a
\* parameter-level override or a package-level thermal pad exists, and then
\* exactly once; when both exist the emitted pad's size, designator and via
\* grid are the override's; when neither exists no thermal pad and no via
\* is emitted.
C14_ThermalPadGoverned ==
    GenerateReturned =>
        LET over == params.thermal_pad_override
            pkgt == params.package.thermal_pad
            txt  == fpOut.text
        IN  /\ (~IsNone(over) \/ ~IsNone(pkgt)) <=> ThermalElems(txt) # {}
            /\ Cardinality(ThermalElems(txt)) <= 1
            /\ (~IsNone(over) /\ ~IsNone(pkgt)) => EmitsThermal(txt, Val(over))
            /\ (IsNone(over) /\ IsNone(pkgt))
                    => ThermalElems(txt) = {} /\ ViaElems(txt) = {}

\* A generate() returned for parameters with both a package-level thermal
\* pad and an override that differ in size, designator and via grid.
C14_Witness ==
    /\ GenerateReturned
    /\ ~IsNone(params.thermal_pad_override) /\ ~IsNone(params.package.thermal_pad)
    /\ Val(params.thermal_pad_override) # Val(params.package.thermal_pad)
    /\ \E i \in ThermalElems(fpOut.text) : fpOut.text[i].number = "PAD"
(***************************************************************************)
(* The two engines on quad packages.                                       *)
(***************************************************************************)
\* What the claim compares of a pad list.
PadView(ps) ==
    [i \in 1..Len(ps) |->
        [number |-> ps[i].number, x |-> ps[i].x, y |-> ps[i].y,
         width |-> ps[i].width, height |-> ps[i].height, shape |-> ps[i].shape]]

C16_DualColumns ==
    LET n     == effective_pins(params.package)
        h     == n \div 2
        pitch == params.package.pitch
        pcx   == params.pad_center_x
    IN  (/\ FreshPads /\ gen = "QFN" /\ is_dual(params.package)
         /\ n % 2 = 0 /\ pcx > 0)
        => /\ Len(pads) = n
           /\ \A i \in 1..Len(pads) : pads[i].number = ToString(i)
           /\ \A i \in 1..h : pads[i].x = -pcx
           /\ \A i \in (h + 1)..n : pads[i].x = pcx
           /\ \A i \in 1..(h - 1) : pads[i + 1].y = pads[i].y + pitch
           /\ \A i \in (h + 1)..(n - 1) : pads[i + 1].y = pads[i].y - pitch
           /\ h > 0 => /\ pads[1].y + pads[h].y = 0
                       /\ pads[h + 1].y + pads[n].y = 0
                       /\ pads[1].y <= 0 /\ pads[h + 1].y >= 0
           /\ \A i \in 1..Len(pads) :
                /\ pads[i].width = params.pad_size.width
                /\ pads[i].height = params.pad_size.height

\* The no-lead engine has placed eight pads of a DFN package with a thermal
\* pad, four per column.
C16_Witness ==
    /\ FreshPads /\ gen = "QFN" /\ params.package.package_type = "DFN"
    /\ has_thermal_pad(params.package)
    /\ params.pad_center_x > 0
    /\ Len(pads) = 8
    /\ pads[4].x < 0 /\ pads[5].x > 0
(***************************************************************************)
(* The courtyard.                                                          *)
(***************************************************************************)
CourtyardLines == SelectSeq(lines, LAMBDA l : l.layer = "F.CrtYd")

\* C17 (as claimed): in the footprint generate() returns, the courtyard is
\* the bounding box of all pads of the footprint (signal pads, the thermal
\* pad and its vias) expanded by the courtyard margin and rounded to the
\* 0.01 mm grid, so every emitted pad's rectangle lies inside it.
C17_CourtyardEnclosesAllPads ==
    (GenerateReturned /\ pads # <<>>) =>
        LET I    == 1..Len(pads)
            m    == params.courtyard_margin
            minx == Round2(SetMin({pads[i].x - pads[i].width \div 2 : i \in I}) - m)
            maxx == Round2(SetMax({pads[i].x + pads[i].width \div 2 : i \in I}) + m)
            miny == Round2(SetMin({pads[i].y - pads[i].height \div 2 : i \in I}) - m)
            maxy == Round2(SetMax({pads[i].y + pads[i].height \div 2 : i \in I}) + m)
            cy   == CourtyardLines
        IN  /\ Len(cy) = 4
            /\ \A k \in 1..Len(cy) :
                 /\ {cy[k].x1, cy[k].x2} \subseteq {minx, maxx}
                 /\ {cy[k].y1, cy[k].y2} \subseteq {miny, maxy}
            /\ \A i \in I :
                 /\ minx <= pads[i].x - pads[i].width \div 2
                 /\ pads[i].x + pads[i].width \div 2 <= maxx
                 /\ miny <= pads[i].y - pads[i].height \div 2
                 /\ pads[i].y + pads[i].height \div 2 <= maxy
(***************************************************************************)
(* The pin-1 marker.                                                       *)
(***************************************************************************)
\* The signal pads of the instance: those with the default layer set.
SignalPads == SelectSeq(pads, LAMBDA pd : pd.layers = SmdLayers)

\* The instance is one of the three variants: quad-lead, no-lead 4-sided,
\* no-lead 2-sided.
TwoSided == gen = "QFN" /\ is_dual(params.package)

KnownVariant == is_quad(params.package) \/ TwoSided

\* The pads of the left side as generated: the first quarter of the signal
\* pads, or the first half on the two-sided variant.
LeftArrayLen == Len(SignalPads) \div (IF TwoSided THEN 2 ELSE 4)

\* C18 (as claimed): after generate(), each variant has exactly one filled
\* circle on the silkscreen layer, and its y-coordinate is
\* -(half the span of the left-side pad array generated + half the pad
\* height + the silkscreen margin), hence above the centre of pad 1.
C18_Pin1MarkerAtLeftArray ==
    (GenerateReturned /\ KnownVariant /\ LeftArrayLen >= 1) =>
        LET k        == LeftArrayLen
            sp       == SignalPads
            halfspan == (sp[k].y - sp[1].y) \div 2
            marks    == {i \in 1..Len(circles) :
                            circles[i].fill /\ circles[i].layer = "F.SilkS"}
        IN  /\ Cardinality(marks) = 1
            /\ \A i \in marks :
                 /\ circles[i].cy = -(halfspan + params.pad_size.height \div 2
                                        + params.silkscreen_margin)
                 /\ circles[i].cy < sp[1].y
(***************************************************************************)
(* The no-lead engine on a package that is neither quad nor dual.          *)
(***************************************************************************)
\* C19 (as claimed): QFNFootprintGenerator.generate() on a package that is
\* neither quad nor dual raises before any pad is computed and returns no
\* text.
C19_NoLeadRejectsOtherFamilies ==
    (/\ gen = "QFN"
     /\ ~is_quad(params.package) /\ ~is_dual(params.package)
     /\ fpOut.op = "generate")
    => fpOut.raised /\ fpOut.text = <<>> /\ pads = <<>>
(***************************************************************************)
(* Inputs are read-only.                                                   *)
(***************************************************************************)
\* C13: layout_pins() and generate() of the symbol engine, and generate()
\* of both footprint engines, leave their inputs unchanged: the component
\* with its pin list (content and order) and every pin, and the footprint
\* parameters with the package, are the same after each call as before.
C13_InputsUnchanged ==
    [][component' = component /\ params' = params /\ gen' = gen]_vars

\* layout_pins() and then generate() have run on a component whose three or
\* more pins are not in the order the layout sorts them into.
C13_Witness ==
    /\ symLog = <<"layout_pins", "generate">>
    /\ Len(component.pins) >= 3
    /\ component.pins # SortByNameNumber(component.pins)
    /\ layouts # <<>>
(***************************************************************************)
(* Concurrent calls on distinct instances.                                 *)
(***************************************************************************)
BlankUuids(text) ==
    [k \in 1..Len(text) |->
        IF "uuid" \in DOMAIN text[k] THEN [text[k] EXCEPT !.uuid = 0] ELSE text[k]]

\* generate() on a new instance with the inputs of e and no other call
\* anywhere, made on the day e read the clock.
Alone(e) ==
    IF e.cls = "SYM"
    THEN LET r == symbol_generate(e.component, <<>>, e.day)
         IN  [raised |-> FALSE, text |-> r.text, geo |-> EmptyGeo,
              layouts |-> r.layouts]
    ELSE LET r == generate(e.cls, EmptyGeo, e.params, e.day, 0)
         IN  [raised |-> r.raised, text |-> r.text, geo |-> r.geo,
              layouts |-> <<>>]

\* C12: for any interleaving of the statements of generate() calls made on
\* distinct engine instances, each call ends as it does when run alone: it
\* raises in the same cases, returns the same text (the random uuid values
\* aside), and leaves the same lists in its instance.
C12_ConcurrentCallsIndependent ==
    \A i \in DOMAIN engines :
        LET e == engines[i]
        IN  e.pc = "done" =>
              /\ e.raised = Alone(e).raised
              /\ BlankUuids(e.text) = BlankUuids(Alone(e).text)
              /\ [e.geo EXCEPT !.pads = PadsSeen(i)] = Alone(e).geo
              /\ e.layouts = Alone(e).layouts

\* Two calls of one footprint class with different parameters have both
\* returned a text, each having run while the other was in progress.
C12_Witness ==
    \E i, j \in DOMAIN engines :
        /\ i # j
        /\ engines[i].pc = "done" /\ engines[j].pc = "done"
        /\ engines[i].overlapped /\ engines[j].overlapped
        /\ engines[i].cls = "QFN" /\ engines[j].cls = "QFN"
        /\ engines[i].params # engines[j].params
        /\ engines[i].text # <<>> /\ engines[j].text # <<>>
        /\ Len(engines[i].geo.pads) # Len(engines[j].geo.pads)
(***************************************************************************)
(* Order of the pins on a side of a single-unit layout.                    *)
(***************************************************************************)
NameNumber(p) == <<p.name, p.number>>

\* Placement order on a side: the pins at i < j are in non-decreasing
\* (name, number) order.
InKeyOrder(side, i, j) == ~KeyLess(NameNumber(side[j].pin), NameNumber(side[i].pin))

\* The place of a pin's category among the categories that share a side:
\* inputs, outputs, supply and ground come first, bidirectional and
\* not-connected pins second, every other pin third.
CategoryRank(p) ==
    IF is_ground(p) \/ is_supply(p) THEN 1
    ELSE IF p.electrical_type \in {"input", "output"} THEN 1
    ELSE IF p.electrical_type \in {"bidirectional", "no_connect"} THEN 2
    ELSE 3

\* C21 (as claimed): after layout_pins() on a single-unit component, the
\* pins of each side, read in placement order, are in non-decreasing
\* (name, number) order.
C21_SidesSorted ==
    SingleUnitLaidOut =>
        \A k \in 1..Len(layouts) : \A s \in Sides :
            \A i, j \in 1..Len(layouts[k][s]) :
                i < j => InKeyOrder(layouts[k][s], i, j)

\* C21 (amended): after layout_pins() on a single-unit component, each side
\* lists its pins category by category (left: inputs, bidirectional, others;
\* right: outputs, bidirectional; top: supply; bottom: ground,
\* not-connected), and the pins of one category, read in placement order,
\* are in non-decreasing (name, number) order.
C21_CategoriesSorted ==
    SingleUnitLaidOut =>
        \A k \in 1..Len(layouts) : \A s \in Sides :
            LET side == layouts[k][s]
            IN  \A i, j \in 1..Len(side) :
                  i < j =>
                    /\ CategoryRank(side[i].pin) <= CategoryRank(side[j].pin)
                    /\ CategoryRank(side[i].pin) = CategoryRank(side[j].pin)
                          => InKeyOrder(side, i, j)

\* A single-unit layout with two pins of one category next to each other on
\* a side, which the component lists in the opposite order.
C21_Witness ==
    /\ SingleUnitLaidOut
    /\ \E s \in Sides : \E i \in 1..(Len(layouts[1][s]) - 1) :
         /\ CategoryRank(layouts[1][s][i].pin) = CategoryRank(layouts[1][s][i + 1].pin)
         /\ \E a, b \in 1..Len(component.pins) :
              /\ a < b
              /\ component.pins[a] = layouts[1][s][i + 1].pin
              /\ component.pins[b] = layouts[1][s][i].pin
(***************************************************************************)
(* The split of the bidirectional pins.                                    *)
(***************************************************************************)
\* The plain bidirectional pins of the component that sort before p.
BidirBefore(p) ==
    {i \in 1..Len(component.pins) :
        /\ PlainBidir(component.pins[i])
        /\ KeyLess(NameNumber(component.pins[i]), NameNumber(p))}

\* C22: in a single-unit layout, of the K bidirectional pins that match no
\* ground or supply pattern, taken in (name, number) order, the first
\* floor(K/2) are on the left side and the other K - floor(K/2) on the right
\* side; the two counts differ by at most 1.
C22_BidirSplit ==
    SingleUnitLaidOut =>
        \A k \in 1..Len(layouts) :
            LET lay  == layouts[k]
                pins == component.pins
                K    == Cardinality({i \in 1..Len(pins) : PlainBidir(pins[i])})
                BidirOn(side) ==
                    Cardinality({j \in 1..Len(lay[side]) : PlainBidir(lay[side][j].pin)})
            IN  /\ \A i \in 1..Len(pins) :
                     PlainBidir(pins[i]) =>
                        IF Cardinality(BidirBefore(pins[i])) < K \div 2
                        THEN OnlyOnSide(lay, "left_pins", pins[i])
                        ELSE OnlyOnSide(lay, "right_pins", pins[i])
                /\ BidirOn("left_pins") = K \div 2
                /\ BidirOn("right_pins") = K - K \div 2
                /\ BidirOn("right_pins") - BidirOn("left_pins") \in {0, 1}

\* A single-unit layout of three bidirectional pins, listed by the
\* component out of (name, number) order: one on the left, two on the right.
C22_Witness ==
    /\ SingleUnitLaidOut
    /\ Len(component.pins) = 3
    /\ \A i \in 1..3 : PlainBidir(component.pins[i])
    /\ KeyLess(NameNumber(component.pins[2]), NameNumber(component.pins[1]))
    /\ Len(layouts[1].left_pins) = 1 /\ Len(layouts[1].right_pins) = 2
(***************************************************************************)
(* Pins stand one pin length outside the body and point into it.           *)
(***************************************************************************)
\* C23: in every unit layout, of a single-unit and of a multi-unit
\* component, each left pin has x = -width/2 - 2.54 mm and orientation 0,
\* each right pin x = +width/2 + 2.54 mm and orientation 180, each top pin
\* y = +height/2 + 2.54 mm and orientation 270, and each bottom pin
\* y = -height/2 - 2.54 mm and orientation 90, width and height being the
\* body size of that unit.
C23_PinsOutsideBody ==
    \A k \in 1..Len(layouts) :
        LET lay == layouts[k]
        IN  /\ \A i \in 1..Len(lay.left_pins) :
                 /\ 2 * lay.left_pins[i].x = -lay.width - 2 * 2540
                 /\ lay.left_pins[i].orientation = "0"
            /\ \A i \in 1..Len(lay.right_pins) :
                 /\ 2 * lay.right_pins[i].x = lay.width + 2 * 2540
                 /\ lay.right_pins[i].orientation = "180"
            /\ \A i \in 1..Len(lay.top_pins) :
                 /\ 2 * lay.top_pins[i].y = lay.height + 2 * 2540
                 /\ lay.top_pins[i].orientation = "270"
            /\ \A i \in 1..Len(lay.bottom_pins) :
                 /\ 2 * lay.bottom_pins[i].y = -lay.height - 2 * 2540
                 /\ lay.bottom_pins[i].orientation = "90"

\* The layouts of a multi-unit component, with pins on the left, on the
\* right and on top or bottom of some unit.
C23_Witness ==
    /\ Cardinality(PinUnits) >= 2
    /\ \E k \in 1..Len(layouts) : layouts[k].left_pins # <<>>
    /\ \E k \in 1..Len(layouts) : layouts[k].right_pins # <<>>
    /\ \E k \in 1..Len(layouts) :
         layouts[k].top_pins # <<>> \/ layouts[k].bottom_pins # <<>>
(***************************************************************************)
(* Multi-unit components: one layout and two blocks per unit.              *)
(***************************************************************************)
\* The blocks of a text that are sub-symbols, in the order of the text.
UnitBlocks(text) ==
    LET IsBlock(e) == e.kind = "unit_symbol"
    IN  SelectSeq(text, IsBlock)

\* generate() has been called once, on a new generator.
FreshSymbolGenerate == symLog = <<"generate">>

\* The pins a layout holds, over its four sides.
LayoutPinsOf(lay) ==
    UNION {{lay[s][i].pin : i \in 1..Len(lay[s])} : s \in Sides}

\* C24: for a component whose pins carry u >= 2 distinct unit numbers,
\* generate() on a new generator produces exactly u layouts in ascending
\* unit-number order, each holding only pins declared for its unit, and
\* serializes for each unit, in that order, one body block <name>_<unit>_0
\* followed by one pin block <name>_<unit>_1, all sub-symbol names distinct.
C24_OneLayoutPerUnit ==
    (FreshSymbolGenerate /\ Cardinality(PinUnits) >= 2) =>
        LET u      == Cardinality(PinUnits)
            blocks == UnitBlocks(symOut.text)
            Sub(k, suffix) ==
                component.name \o "_" \o ToString(layouts[k].unit) \o suffix
        IN  /\ Len(layouts) = u
            /\ {layouts[k].unit : k \in 1..Len(layouts)} = PinUnits
            /\ \A k \in 1..(Len(layouts) - 1) : layouts[k].unit < layouts[k + 1].unit
            /\ \A k \in 1..Len(layouts) :
                 \A p \in LayoutPinsOf(layouts[k]) : p.unit = layouts[k].unit
            /\ Len(blocks) = 2 * u
            /\ \A k \in 1..Len(layouts) :
                 /\ blocks[2 * k - 1].name = Sub(k, "_0")
                 /\ blocks[2 * k - 1].rectangle # None
                 /\ blocks[2 * k - 1].pins = <<>>
                 /\ blocks[2 * k].name = Sub(k, "_1")
                 /\ blocks[2 * k].rectangle = None
                 /\ {blocks[2 * k].pins[i].number : i \in 1..Len(blocks[2 * k].pins)}
                      = {p.number : p \in LayoutPinsOf(layouts[k])}
            /\ \A i, j \in 1..Len(blocks) : i # j => blocks[i].name # blocks[j].name

\* generate() on a new generator for a component with pins in three units,
\* which it lists from the highest unit to the lowest.
C24_Witness ==
    /\ FreshSymbolGenerate
    /\ PinUnits = {1, 2, 3}
    /\ component.pins[1].unit = 3
    /\ Len(UnitBlocks(symOut.text)) = 6
(***************************************************************************)
(* The power-only flag of a unit.                                          *)
(***************************************************************************)
\* The pins of the component that belong to the unit of layout lay: all of
\* them for a single-unit component.
PinsOfUnit(lay) ==
    LET InUnit(p) == Cardinality(PinUnits) <= 1 \/ p.unit = lay.unit
    IN  SelectSeq(component.pins, InUnit)

\* C25: a unit layout has is_power_unit = true exactly when the unit has at
\* least one pin and every pin of the unit is a ground-named or supply-named
\* pin, in the single-unit and in the multi-unit path (a unit holding a
\* supply pin and a not-connected pin of another name is not flagged).
C25_PowerUnitFlag ==
    \A k \in 1..Len(layouts) :
        LET ps == PinsOfUnit(layouts[k])
        IN  layouts[k].is_power_unit <=>
              /\ ps # <<>>
              /\ \A i \in 1..Len(ps) : is_ground(ps[i]) \/ is_supply(ps[i])
(***************************************************************************)
(* Every pin is placed once.                                               *)
(***************************************************************************)
\* layout_pins() has been called once, on a new generator.
FreshLayout == symLog = <<"layout_pins">>

\* The <<layout, side, position>> places at which a pin stands.
PlacesOf(p) ==
    {<<k, s, i>> \in (1..Len(layouts)) \X Sides \X (1..MaxPins + 1) :
        i <= Len(layouts[k][s]) /\ layouts[k][s][i].pin = p}

\* C28: after layout_pins() on a new generator, every pin of the component
\* stands at exactly one place: one position of one side of one unit
\* layout, and that layout is the one of the pin's own unit; no pin is
\* dropped and none is placed twice, in the single-unit and in the
\* multi-unit path.
C28_EveryPinPlacedOnce ==
    FreshLayout =>
        \A n \in 1..Len(component.pins) :
            LET p == component.pins[n]
            IN  /\ Cardinality(PlacesOf(p)) = 1
                /\ \A pl \in PlacesOf(p) : layouts[pl[1]].unit = p.unit
(***************************************************************************)
(* The layout does not depend on the order of the pin list.                *)
(***************************************************************************)
\* The orders in which the pins of s can be listed.
Orderings(s) ==
    LET n == Len(s)
        bijections == {f \in [1..n -> 1..n] : \A i, j \in 1..n : i # j => f[i] # f[j]}
    IN  {[i \in 1..n |-> s[f[i]]] : f \in bijections}

\* Where layouts put each pin: its unit, side, position and orientation.
Placement(lays) ==
    UNION {UNION {{<<lays[k][s][i].pin, lays[k].unit, s, lays[k][s][i].x,
                     lays[k][s][i].y, lays[k][s][i].orientation>> :
                        i \in 1..Len(lays[k][s])} : s \in Sides} :
              k \in 1..Len(lays)}

\* C29: the layout is a function of the set of pins, not of their order in
\* the pin list: layout_pins() on a new generator gives every pin the same
\* unit, side, position and orientation for the component and for every
\* component that lists the same pins in another order, in the single-unit
\* and in the multi-unit path, also when several pins share a name.
C29_OrderIndependent ==
    FreshLayout =>
        \A q \in Orderings(component.pins) :
            Placement(layout_pins([component EXCEPT !.pins = q]))
                = Placement(layouts)
(***************************************************************************)
(* Differential pairs stay together.                                       *)
(***************************************************************************)
\* The name ends in one of the letters, after a non-empty base.
HasSuffix(p, letters) == Len(p.name) >= 2 /\ p.name[Len(p.name)] \in letters

BaseName(p) == SubSeq(p.name, 1, Len(p.name) - 1)

\* p is the positive and q the matching negative member of one base name:
\* base + P with base + N, or base + A with base + B.
MatchingPair(p, q) ==
    /\ BaseName(p) = BaseName(q)
    /\ \/ HasSuffix(p, {"P"}) /\ HasSuffix(q, {"N"})
       \/ HasSuffix(p, {"A"}) /\ HasSuffix(q, {"B"})

\* C26: for any list of signal pins, _sort_with_diff_pairs returns a
\* permutation of the list in which, for every base name that has both a
\* positive member (base + P, or base + A) and the matching negative member
\* (base + N, or base + B), the positive member stands immediately before
\* the negative one, and the pins without a P/N/A/B suffix follow all
\* suffixed pins.
C26_DiffPairsAdjacent ==
    sigOut.returned =>
        LET out == sigOut.pins
        IN  /\ Len(out) = Len(sigPins)
            /\ Range(out) = Range(sigPins)
            /\ \A i, j \in 1..Len(out) :
                 MatchingPair(out[i], out[j]) => j = i + 1
            /\ \A i, j \in 1..Len(out) :
                 (HasSuffix(out[i], {"P", "N", "A", "B"})
                    /\ ~HasSuffix(out[j], {"P", "N", "A", "B"})) => i < j
(***************************************************************************)
(* The order of the pipeline, as the lists and the text show it.           *)
(***************************************************************************)
\* Silkscreen lines are appended first, then the courtyard, then the
\* fabrication outline.
LayerRank(layer) ==
    CASE layer = "F.SilkS" -> 1
      [] layer = "F.CrtYd" -> 2
      [] layer = "F.Fab"   -> 3
      [] OTHER             -> 4

\* The kinds of the geometry elements of a text, in the order of a text
\* built from the lists: texts, lines, circles, arcs, pads.
KindRank(kind) ==
    CASE kind = "fp_text"   -> 1
      [] kind = "fp_line"   -> 2
      [] kind = "fp_circle" -> 3
      [] kind = "fp_arc"    -> 4
      [] kind = "pad"       -> 5
      [] OTHER              -> 0

ThermalConfigured ==
    params_has_thermal_pad(params) /\ ~IsNone(params_thermal_pad(params))

\* C27: every generate() call on a footprint engine clears the lists,
\* computes the pads, the silkscreen, the courtyard, the fabrication
\* outline and the reference/value texts, adds the thermal pad and its vias
\* if one is configured, and only then serializes, each step once and in
\* this order: the signal pads 1..N come first in the pad list, then the
\* thermal pad, then its vias; the lines are the silkscreen, then the
\* courtyard of the pads present when it was computed, then the outline;
\* and the returned text lists the same elements in the same order.
C27_PipelineOrder ==
    GenerateReturned =>
        LET n    == Len(SignalPads)
            txt  == fpOut.text
            geoI == {i \in 1..Len(txt) : KindRank(txt[i].kind) > 0}
            padI == {i \in 1..Len(txt) : txt[i].kind = "pad"}
            FabLines == SelectSeq(lines, LAMBDA l : l.layer = "F.Fab")
        IN  /\ \A i \in 1..n :
                 pads[i].layers = SmdLayers /\ pads[i].number = ToString(i)
            /\ IF ThermalConfigured
               THEN LET t == Val(params_thermal_pad(params))
                    IN  /\ Len(pads) = n + 1 + t.via_count_x * t.via_count_y
                        /\ pads[n + 1].pad_type = "smd"
                        /\ pads[n + 1].number = t.pin_number
                        /\ \A i \in (n + 2)..Len(pads) :
                             pads[i].pad_type = "thru_hole"
               ELSE Len(pads) = n
            /\ \A i, j \in 1..Len(lines) :
                 i < j => LayerRank(lines[i].layer) <= LayerRank(lines[j].layer)
            /\ CourtyardLines = calculate_courtyard(SignalPads, params)
            /\ FabLines = calculate_fab_layer(params)
            /\ Len(texts) = 2
            /\ texts[1].text_type = "reference" /\ texts[2].text_type = "value"
            /\ \A i, j \in geoI :
                 i < j => KindRank(txt[i].kind) <= KindRank(txt[j].kind)
            /\ Cardinality(padI) = Len(pads)
            /\ \A i \in padI :
                 txt[i].number = pads[Cardinality({j \in padI : j <= i})].number
            /\ Cardinality({i \in 1..Len(txt) : txt[i].kind = "fp_line"}) = Len(lines)
            /\ Cardinality({i \in 1..Len(txt) : txt[i].kind = "fp_text"}) = Len(texts)

\* generate() has returned after a direct calculate_pads() call on the same
\* instance, for a package with signal pads and a thermal pad with vias.
C27_Witness ==
    /\ GenerateReturned
    /\ fpLog = <<"calculate_pads", "generate">>
    /\ ThermalConfigured
    /\ Len(SignalPads) >= 4
    /\ Len(pads) >= Len(SignalPads) + 3
(***************************************************************************)
(* The convenience constructors on a rectangular body.                     *)
(***************************************************************************)
\* The call returned a quad layout: four sides of pins \div 4 pads.
QuadCreated ==
    /\ createOut.op \in {"create_qfp_footprint", "create_qfn_footprint"}
    /\ ~createOut.raised
    /\ ~(createOut.op = "create_qfn_footprint" /\ upper[createOut.variant] = "DFN")

\* body_width and body_length of the call, the default of create_qfn_footprint
\* applied.
CreatedBody ==
    IF createOut.op = "create_qfn_footprint"
    THEN <<createOut.body[1],
           IF IsNone(createOut.body[2]) THEN createOut.body[1]
           ELSE Val(createOut.body[2])>>
    ELSE createOut.body

\* The offset of a pad row or column from the origin for a body edge at
\* half of `side`: side/2 + pad_length/2 for the quad-lead constructor
\* (pad_length = (lead_span - body_width)/2 + 0.5 with the lead span the
\* callers pass), side/2 - terminal_length/2 + 0.15 for the no-lead one.
EdgeOffset(side) ==
    IF createOut.op = "create_qfp_footprint"
    THEN side \div 2 + ((2000 \div 2) + 500) \div 2
    ELSE side \div 2 - 400 \div 2 + 150

\* The numbers of the pads of the bottom and top rows, and of the left and
\* right columns, of a quad layout of 4n pads.
RowNumbers(n)    == {ToString(k) : k \in ((n + 1)..(2 * n)) \cup ((3 * n + 1)..(4 * n))}
ColumnNumbers(n) == {ToString(k) : k \in (1..n) \cup ((2 * n + 1)..(3 * n))}

Abs(v) == IF v < 0 THEN -v ELSE v

\* C30 (as claimed): in the text create_qfn_footprint and
\* create_qfp_footprint return for a body whose length differs from its
\* width, the pads of the top and bottom rows are centred at a distance
\* from the origin derived from body_length, as the pads of the left and
\* right columns are at the distance the same formula gives for body_width.
C30_RowsAtBodyLengthEdge ==
    (QuadCreated /\ CreatedBody[1] # CreatedBody[2]) =>
        LET txt == createOut.text
            n   == createOut.pins \div 4
        IN  \A i \in PadElems(txt) :
              /\ txt[i].number \in ColumnNumbers(n) =>
                   Abs(txt[i].at[1]) = Fmt4(EdgeOffset(CreatedBody[1]))
              /\ txt[i].number \in RowNumbers(n) =>
                   Abs(txt[i].at[2]) = Fmt4(EdgeOffset(CreatedBody[2]))

====
